---- MODULE Spec2Model ----
\* A model of the sympy excerpt: the assumptions/predicate subsystem
\* (sympy/assumptions/assume.py), the relational subsystem exercised by
\* sympy/core/tests/test_relational.py, the Clebsch-Gordan coefficients
\* (sympy/physics/quantum/cg.py) and exp/log (functions/elementary/exponential.py).
\*
\* Every subsystem has its own variables, its own actions and its own
\* specification (SpecPred, SpecCtx, ...); all of them start from Init.
EXTENDS Integers, Sequences, FiniteSets

VARIABLES
    handlers,   \* Predicate.handlers: the list of registered handlers
    predCall,   \* the last call made on the Predicate and its outcome
    ctx,        \* AssumptionsContext: number of stored copies per fact
    ctxPrev,    \* the context as it was before the last call
    ctxCall,    \* the last call made on the context and its outcome
    e,          \* the relational expression under study (test_relational.py: e)
    relCall,    \* the last relational call and the value it returned
    coeff,      \* the Wigner3j / CG object under study
    cgCall,     \* the last call made on coeff and its outcome
    simpIn,     \* the sum cg_simp was last called on
    simpOut,    \* what that call returned, or the error it raised
    elArg,      \* the expression exp and log are applied to
    elOps,      \* the functions applied to it so far, innermost first
    elCur,      \* the expression the applications have evaluated to
    libCall,    \* the last call of a library function: its name and arguments
    libRet      \* what that call returned, or the error it raised

predVars == <<handlers, predCall>>
ctxVars == <<ctx, ctxPrev, ctxCall>>
relVars == <<e, relCall>>
cgVars == <<coeff, cgCall>>
simpVars == <<simpIn, simpOut>>
elVars == <<elArg, elOps, elCur>>
libVars == <<libCall, libRet>>
vars == <<handlers, predCall, ctx, ctxPrev, ctxCall, e, relCall, coeff, cgCall,
          simpIn, simpOut, elArg, elOps, elCur, libCall, libRet>>

\* ---------------------------------------------------------------------
\* Bounds of the model
\* ---------------------------------------------------------------------
MaxHandlers == 3
MaxAddArgs == 2
MaxFinite == 1
MaxTwoJ == 2
MaxTwoA == 2
MaxInt == 2
MaxApply == 2
MaxArgIndex == 2
MaxSides == 2
MaxTerms == 2
MaxFactors == 2
MaxCoef == 2
MaxMeasure == 2
MaxPowers == 3
MaxOrder == 3
MaxRf == 3

\* ---------------------------------------------------------------------
\* Generic helpers
\* ---------------------------------------------------------------------
SeqsUpTo(S, n) == UNION {[1..k -> S] : k \in 0..n}

Range(s) == {s[i] : i \in DOMAIN s}

\* all orderings of the sequence s
Permutations(s) ==
    {[i \in DOMAIN s |-> s[p[i]]] :
        p \in {q \in [DOMAIN s -> DOMAIN s] : \A i, j \in DOMAIN s : q[i] = q[j] => i = j}}

\* =====================================================================
\* assume.py: Predicate
\* =====================================================================

\* Python's None, True and False as returned by a resolver
Answers == {"None", "True", "False"}

\* names of the resolver attributes a handler class may define
HandlerAttrs == {"Integer", "Basic"}

\* a handler class: the resolvers it defines, by attribute name
Handlers == UNION {[A -> Answers] : A \in SUBSET HandlerAttrs}

\* the types of the expressions eval is called on
ExprTypes == {"Integer", "Symbol"}

\* inspect.getmro(type(expr)), most specific type first
getmro(t) ==
    IF t = "Integer" THEN <<"Integer", "Rational", "Basic">>
    ELSE <<"Symbol", "Basic">>

\* the inner loop of eval: the first subclass of the mro that the handler has
\* an attribute for is called (then `break`); "NoAttr" when getattr raised
\* AttributeError for every subclass
RECURSIVE ResolveBroken(_, _)
ResolveBroken(h, mro) ==
    \* the loop without its `break`: the last matching subclass wins
    IF mro = <<>> THEN "NoAttr"
    ELSE LET rest == ResolveBroken(h, Tail(mro)) IN
         IF rest # "NoAttr" THEN rest
         ELSE IF Head(mro) \in DOMAIN h THEN h[Head(mro)] ELSE "NoAttr"

RECURSIVE Resolve(_, _)
Resolve(h, mro) ==
    IF mro = <<>> THEN "NoAttr"
    ELSE IF Head(mro) \in DOMAIN h THEN h[Head(mro)]
    ELSE Resolve(h, Tail(mro))

\* one pass of the body of `for handler in self.handlers`, on (res, _res)
EvalBodyNoCheck(r, res, res0) ==
    \* the consistency check compared with the previous handler's answer
    \* instead of the first conclusive one
    IF r = "NoAttr" THEN [res |-> res, res0 |-> res0, raised |-> FALSE]
    ELSE IF res0 = "None" THEN [res |-> r, res0 |-> r, raised |-> FALSE]
    ELSE IF r = "None" THEN [res |-> r, res0 |-> res0, raised |-> FALSE]
    ELSE [res |-> r, res0 |-> res0, raised |-> (res # "None" /\ res # r)]

EvalBody(r, res, res0) ==
    IF r = "NoAttr" THEN [res |-> res, res0 |-> res0, raised |-> FALSE]
    ELSE IF res0 = "None" THEN [res |-> r, res0 |-> r, raised |-> FALSE]
    ELSE IF r = "None" THEN [res |-> res0, res0 |-> res0, raised |-> FALSE]
    ELSE [res |-> r, res0 |-> res0, raised |-> (res0 # r)]

\* the loop over self.handlers; a raise leaves no return value
RECURSIVE EvalLoop(_, _, _, _)
EvalLoop(hs, mro, res, res0) ==
    IF hs = <<>> THEN [ret |-> res, raised |-> FALSE]
    ELSE LET b == EvalBody(Resolve(Head(hs), mro), res, res0) IN
         IF b.raised THEN [ret |-> "NoValue", raised |-> TRUE]
         ELSE EvalLoop(Tail(hs), mro, b.res, b.res0)

\* Predicate.eval(expr): res, _res = None, None; then the loop
PredicateEval(hs, t) == EvalLoop(hs, getmro(t), "None", "None")

\* a removal that drops every occurrence of x
ListRemoveAll(s, x) == SelectSeq(s, LAMBDA y : y # x)

\* list.remove(x): drops the first occurrence of x
RECURSIVE ListRemove(_, _)
ListRemove(s, x) ==
    IF s = <<>> THEN <<>>
    ELSE IF Head(s) = x THEN Tail(s)
    ELSE <<Head(s)>> \o ListRemove(Tail(s), x)

InitPred ==
    /\ handlers = <<>>
    /\ predCall = [op |-> "new", raised |-> FALSE]

\* Predicate.add_handler(h)
add_handler(h) ==
    /\ Len(handlers) < MaxHandlers
    /\ handlers' = Append(handlers, h)
    /\ predCall' = [op |-> "add_handler", raised |-> FALSE]
    /\ UNCHANGED <<ctxVars, relVars, cgVars, simpVars, elVars, libVars>>

\* Predicate.remove_handler(h): list.remove raises ValueError when h is absent
remove_handler(h) ==
    /\ IF h \in Range(handlers)
       THEN /\ handlers' = ListRemove(handlers, h)
            /\ predCall' = [op |-> "remove_handler", raised |-> FALSE]
       ELSE /\ handlers' = handlers
            /\ predCall' = [op |-> "remove_handler", raised |-> TRUE]
    /\ UNCHANGED <<ctxVars, relVars, cgVars, simpVars, elVars, libVars>>

\* Predicate.eval(expr) for an expression of type t
eval(t) ==
    /\ LET out == PredicateEval(handlers, t) IN
       predCall' = [op |-> "eval", expr |-> t, ret |-> out.ret, raised |-> out.raised]
    /\ UNCHANGED <<handlers, ctxVars, relVars, cgVars, simpVars, elVars, libVars>>

NextPred ==
    \/ \E h \in Handlers : add_handler(h)
    \/ \E h \in Handlers : remove_handler(h)
    \/ \E t \in ExprTypes : eval(t)

\* =====================================================================
\* assume.py: AssumptionsContext
\* =====================================================================

\* the facts (applied predicates) that may be assumed
Facts == {"Q.real(x)", "Q.integer(x)", "Q.positive(y)"}

EmptyContext == [f \in Facts |-> 0]

\* set.add(a) of the base class: a is stored once, however often it is added
SetAddAppending(c, a) == [c EXCEPT ![a] = @ + 1]

SetAdd(c, a) == [c EXCEPT ![a] = 1]

\* AssumptionsContext.add(*assumptions): for a in assumptions: super().add(a)
AddFirstOnly(c, assumptions) ==
    \* only the first assumption is added
    IF assumptions = <<>> THEN c ELSE SetAdd(c, Head(assumptions))

RECURSIVE ContextAdd(_, _)
ContextAdd(c, assumptions) ==
    IF assumptions = <<>> THEN c
    ELSE ContextAdd(SetAdd(c, Head(assumptions)), Tail(assumptions))

InitCtx ==
    /\ ctx = EmptyContext
    /\ ctxPrev = EmptyContext
    /\ ctxCall = [op |-> "new", args |-> <<>>, raised |-> FALSE]

\* global_assumptions.add(a1, ..., an)
add(assumptions) ==
    /\ ctx' = ContextAdd(ctx, assumptions)
    /\ ctxPrev' = ctx
    /\ ctxCall' = [op |-> "add", args |-> assumptions, raised |-> FALSE]
    /\ UNCHANGED <<predVars, relVars, cgVars, simpVars, elVars, libVars>>

\* set.remove(a): KeyError when a is not a member
remove(a) ==
    /\ ctx' = IF ctx[a] > 0 THEN [ctx EXCEPT ![a] = @ - 1] ELSE ctx
    /\ ctxPrev' = ctx
    /\ ctxCall' = [op |-> "remove", args |-> <<a>>, raised |-> (ctx[a] = 0)]
    /\ UNCHANGED <<predVars, relVars, cgVars, simpVars, elVars, libVars>>

\* set.clear()
clear ==
    /\ ctx' = EmptyContext
    /\ ctxPrev' = ctx
    /\ ctxCall' = [op |-> "clear", args |-> <<>>, raised |-> FALSE]
    /\ UNCHANGED <<predVars, relVars, cgVars, simpVars, elVars, libVars>>

NextCtx ==
    \/ \E s \in SeqsUpTo(Facts, MaxAddArgs) : add(s)
    \/ \E a \in Facts : remove(a)
    \/ clear

\* =====================================================================
\* core/relational.py, as the specification and test_relational.py describe it
\* =====================================================================

\* operands: finite numbers, the two infinities and symbols
Num(n) == [k |-> "num", v |-> n, name |-> ""]
PosInf == [k |-> "oo", v |-> 0, name |-> "oo"]
NegInf == [k |-> "-oo", v |-> 0, name |-> "-oo"]
Symbol(name, fact) == [k |-> fact, v |-> 0, name |-> name]

\* x, y, z = symbols('x,y,z') and the four signed symbols of test_doit
PlainSymbols == {Symbol("x", "sym"), Symbol("y", "sym"), Symbol("z", "sym")}
SignedSymbols ==
    {Symbol("p", "positive"), Symbol("n", "negative"),
     Symbol("np", "nonpositive"), Symbol("nn", "nonnegative")}
Symbols == PlainSymbols \cup SignedSymbols
Numbers == {Num(i) : i \in 0..MaxFinite} \cup {PosInf, NegInf}
Operands == Numbers \cup Symbols

is_Number(a) == a.k \in {"num", "oo", "-oo"}

RelOps == {"==", "!=", "<", "<=", ">", ">="}

\* the literal booleans a comparison collapses to
BoolLit(b) == [cls |-> "bool", rel_op |-> "", lhs |-> Num(0), rhs |-> Num(0), val |-> b]

\* the strict order of the real numbers with the two infinities
NumLtReflexiveInf(a, b) ==
    \* an infinity compares below itself
    IF b.k = "oo" THEN TRUE
    ELSE IF a.k = "-oo" THEN TRUE
    ELSE IF a.k = "oo" \/ b.k = "-oo" THEN FALSE
    ELSE a.v < b.v

NumLt(a, b) ==
    IF a.k = "oo" THEN FALSE
    ELSE IF a.k = "-oo" THEN b.k # "-oo"
    ELSE IF b.k = "oo" THEN TRUE
    ELSE IF b.k = "-oo" THEN FALSE
    ELSE a.v < b.v

\* the truth value of a comparison of two numbers
eval_relation(rop, a, b) ==
    CASE rop = "==" -> a = b
      [] rop = "!=" -> a # b
      [] rop = "<"  -> NumLt(a, b)
      [] rop = "<=" -> NumLt(a, b) \/ a = b
      [] rop = ">"  -> NumLt(b, a)
      [] rop = ">=" -> NumLt(b, a) \/ a = b

\* the concrete variant an operator string dispatches to
get_relational_class(rop) ==
    CASE rop = "==" -> "Equality"
      [] rop = "!=" -> "Unequality"
      [] rop = "<"  -> "StrictInequality"
      [] rop = "<=" -> "Inequality"
      [] rop = ">"  -> "StrictGreaterThan"
      [] rop = ">=" -> "GreaterThan"

\* construction of one variant: a literal boolean when both sides are
\* numbers, the unevaluated relational otherwise
RelNew(rop, lhs, rhs) ==
    IF is_Number(lhs) /\ is_Number(rhs)
    THEN BoolLit(eval_relation(rop, lhs, rhs))
    ELSE [cls |-> get_relational_class(rop), rel_op |-> rop,
          lhs |-> lhs, rhs |-> rhs, val |-> FALSE]

\* the generic constructor and its alias
Relational(lhs, rhs, rop) == RelNew(rop, lhs, rhs)
Rel(lhs, rhs, rop) == Relational(lhs, rhs, rop)

\* the six named constructors
Eq(lhs, rhs) == RelNew("==", lhs, rhs)
Ne(lhs, rhs) == RelNew("!=", lhs, rhs)
Lt(lhs, rhs) == RelNew("<", lhs, rhs)
Le(lhs, rhs) == RelNew("<=", lhs, rhs)
Gt(lhs, rhs) == RelNew(">", lhs, rhs)
Ge(lhs, rhs) == RelNew(">=", lhs, rhs)

\* Eq(x) with one argument
EqDefaultOne(lhs) == Eq(lhs, Num(1))

Eq1(lhs) == Eq(lhs, Num(0))

Named(rop, lhs, rhs) ==
    CASE rop = "==" -> Eq(lhs, rhs)
      [] rop = "!=" -> Ne(lhs, rhs)
      [] rop = "<"  -> Lt(lhs, rhs)
      [] rop = "<=" -> Le(lhs, rhs)
      [] rop = ">"  -> Gt(lhs, rhs)
      [] rop = ">=" -> Ge(lhs, rhs)

\* the native operators a < b, a <= b, a > b, a >= b on expressions
NativeSwapped(rop, a, b) ==
    \* a > b and a >= b built from the reflected operator without swapping
    CASE rop = "<"  -> Lt(a, b)
      [] rop = "<=" -> Le(a, b)
      [] rop = ">"  -> Lt(a, b)
      [] rop = ">=" -> Le(a, b)

Native(rop, a, b) ==
    CASE rop = "<"  -> Lt(a, b)
      [] rop = "<=" -> Le(a, b)
      [] rop = ">"  -> Gt(a, b)
      [] rop = ">=" -> Ge(a, b)

\* the sign facts of an operand: "True", "False" or "None" (unknown)
is_positive(a) ==
    CASE a.k = "num" -> IF a.v > 0 THEN "True" ELSE "False"
      [] a.k = "oo" -> "True"
      [] a.k = "-oo" -> "False"
      [] a.k = "positive" -> "True"
      [] a.k \in {"negative", "nonpositive"} -> "False"
      [] OTHER -> "None"

is_negative(a) ==
    CASE a.k = "num" -> IF a.v < 0 THEN "True" ELSE "False"
      [] a.k = "-oo" -> "True"
      [] a.k = "oo" -> "False"
      [] a.k = "negative" -> "True"
      [] a.k \in {"positive", "nonnegative"} -> "False"
      [] OTHER -> "None"

FuzzyNot(t) == IF t = "True" THEN "False" ELSE IF t = "False" THEN "True" ELSE "None"

is_real(a) == IF a.k = "sym" THEN "None" ELSE "True"

\* for a real operand nonpositive is the negation of positive
is_nonpositive(a) == IF is_real(a) = "True" THEN FuzzyNot(is_positive(a)) ELSE "None"
is_nonnegative(a) == IF is_real(a) = "True" THEN FuzzyNot(is_negative(a)) ELSE "None"

\* substitution of new for old in an operand
SubsOperand(a, old, new) == IF a = old THEN new ELSE a

\* rel.subs(old, new): both sides rewritten, the same variant rebuilt
SubsAsEquality(r, old, new) ==
    \* the result is always rebuilt as an Equality
    RelNew("==", SubsOperand(r.lhs, old, new), SubsOperand(r.rhs, old, new))

Subs(r, old, new) ==
    RelNew(r.rel_op, SubsOperand(r.lhs, old, new), SubsOperand(r.rhs, old, new))

\* the sign fact that decides `lhs rop 0`
SignFactStrictOnly(rop, a) ==
    \* the non-strict operators consult the strict facts
    CASE rop \in {">", ">="} -> is_positive(a)
      [] rop \in {"<", "<="} -> is_negative(a)

SignFact(rop, a) ==
    CASE rop = ">"  -> is_positive(a)
      [] rop = ">=" -> is_nonnegative(a)
      [] rop = "<"  -> is_negative(a)
      [] rop = "<=" -> is_nonpositive(a)

\* rel.doit(): an ordering against zero resolves by the sign fact of the left
\* operand; anything else is rebuilt as it is
Doit(r) ==
    IF r.rel_op \in {"<", "<=", ">", ">="} /\ r.rhs = Num(0)
    THEN LET f == SignFact(r.rel_op, r.lhs) IN
         IF f = "True" THEN BoolLit(TRUE)
         ELSE IF f = "False" THEN BoolLit(FALSE)
         ELSE RelNew(r.rel_op, r.lhs, r.rhs)
    ELSE RelNew(r.rel_op, r.lhs, r.rhs)

NoArg == Num(0)

\* every behaviour follows one relational object the way the tests do: it is
\* constructed once, from the state in which nothing has been built, and then
\* one call (subs or doit) is made on it
Constructors == {"Relational", "Rel", "Named", "Native", "Eq1"}

InitRel ==
    /\ e = BoolLit(TRUE)
    /\ relCall = [fn |-> "none", rop |-> "", a |-> NoArg, b |-> NoArg, ret |-> BoolLit(TRUE)]

\* e = Relational(lhs, rhs, rop), Rel(lhs, rhs, rop), Eq(lhs, rhs) ...
Construct(fn, rop, lhs, rhs) ==
    /\ relCall.fn = "none"
    /\ LET r == CASE fn = "Relational" -> Relational(lhs, rhs, rop)
                  [] fn = "Rel" -> Rel(lhs, rhs, rop)
                  [] fn = "Named" -> Named(rop, lhs, rhs)
       IN /\ e' = r
          /\ relCall' = [fn |-> fn, rop |-> rop, a |-> lhs, b |-> rhs, ret |-> r]
    /\ UNCHANGED <<predVars, ctxVars, cgVars, simpVars, elVars, libVars>>

\* e = (lhs < rhs) and the other three native comparisons
ConstructNative(rop, lhs, rhs) ==
    /\ relCall.fn = "none"
    /\ LET r == Native(rop, lhs, rhs) IN
       /\ e' = r
       /\ relCall' = [fn |-> "Native", rop |-> rop, a |-> lhs, b |-> rhs, ret |-> r]
    /\ UNCHANGED <<predVars, ctxVars, cgVars, simpVars, elVars, libVars>>

\* e = Eq(lhs)
ConstructEq1(lhs) ==
    /\ relCall.fn = "none"
    /\ e' = Eq1(lhs)
    /\ relCall' = [fn |-> "Eq1", rop |-> "==", a |-> lhs, b |-> NoArg, ret |-> Eq1(lhs)]
    /\ UNCHANGED <<predVars, ctxVars, cgVars, simpVars, elVars, libVars>>

\* e.subs(old, new): returns a new object, e itself is immutable
subs(old, new) ==
    /\ relCall.fn \in Constructors
    /\ e.cls # "bool"
    /\ relCall' = [fn |-> "subs", rop |-> e.rel_op, a |-> old, b |-> new, ret |-> Subs(e, old, new)]
    /\ UNCHANGED <<e, predVars, ctxVars, cgVars, simpVars, elVars, libVars>>

\* e.doit()
doit ==
    /\ relCall.fn \in Constructors
    /\ e.cls # "bool"
    /\ relCall' = [fn |-> "doit", rop |-> e.rel_op, a |-> NoArg, b |-> NoArg, ret |-> Doit(e)]
    /\ UNCHANGED <<e, predVars, ctxVars, cgVars, simpVars, elVars, libVars>>

NextRel ==
    \/ \E fn \in {"Relational", "Rel", "Named"}, rop \in RelOps, lhs \in Operands, rhs \in Operands :
          Construct(fn, rop, lhs, rhs)
    \/ \E rop \in {"<", "<=", ">", ">="}, lhs \in Operands, rhs \in Operands :
          ConstructNative(rop, lhs, rhs)
    \/ \E lhs \in Operands : ConstructEq1(lhs)
    \/ \E old \in PlainSymbols, new \in Operands : subs(old, new)
    \/ doit

\* =====================================================================
\* physics/quantum/cg.py: Wigner3j and CG
\* =====================================================================

\* a component of a coefficient: a number (kept as twice its value, so that
\* half-integers are integers) or a symbol
CNum(v2) == [num |-> TRUE, v2 |-> v2, name |-> ""]
CSym(name) == [num |-> FALSE, v2 |-> 0, name |-> name]

\* the components the coefficients are built from
Components == {CNum(v) : v \in 1..MaxTwoJ} \cup {CSym("j")}

\* the accessors j1, m1, j2, m2, j3, m3 of the argument tuple
j1(c) == c.args[1]
m1(c) == c.args[2]
j2(c) == c.args[3]
m2(c) == c.args[4]
j3(c) == c.args[5]
m3(c) == c.args[6]

\* Basic.is_number of a component
is_number(x) == x.num

\* Wigner3j.is_symbolic
is_symbolic_ignoring_m3(c) ==
    \* m3 is left out of the conjunction
    ~(is_number(j1(c)) /\ is_number(j2(c)) /\ is_number(j3(c)) /\
      is_number(m1(c)) /\ is_number(m2(c)))

is_symbolic(c) ==
    ~(is_number(j1(c)) /\ is_number(j2(c)) /\ is_number(j3(c)) /\
      is_number(m1(c)) /\ is_number(m2(c)) /\ is_number(m3(c)))

\* the numeric evaluator each class hands its arguments to
Evaluator(c) == IF c.cls = "CG" THEN "clebsch_gordan" ELSE "wigner_3j"

\* the argument tuple of the evaluator call
EvaluatorArgsConstructorOrder(c) ==
    \* the arguments passed in the order of the constructor
    <<j1(c), m1(c), j2(c), m2(c), j3(c), m3(c)>>

EvaluatorArgs(c) == <<j1(c), j2(c), j3(c), m1(c), m2(c), m3(c)>>

\* Wigner3j.doit / CG.doit: the outcome of the call
CoeffDoit(c) ==
    IF is_symbolic(c)
    THEN [fn |-> "doit", raised |-> TRUE, msg |-> "Coefficients must be numerical",
          called |-> "none", with |-> <<>>]
    ELSE [fn |-> "doit", raised |-> FALSE, msg |-> "",
          called |-> Evaluator(c), with |-> EvaluatorArgs(c)]

NoCoeff == [cls |-> "none", args |-> <<>>]

InitCG ==
    /\ coeff = NoCoeff
    /\ cgCall = [fn |-> "none", raised |-> FALSE, msg |-> "", called |-> "none", with |-> <<>>]

\* coeff = Wigner3j(j1, m1, j2, m2, j3, m3) or CG(j1, m1, j2, m2, j3, m3)
CoeffNew(cls, args) ==
    /\ cgCall.fn = "none"
    /\ coeff' = [cls |-> cls, args |-> args]
    /\ cgCall' = [cgCall EXCEPT !.fn = "new"]
    /\ UNCHANGED <<predVars, ctxVars, relVars, simpVars, elVars, libVars>>

\* coeff.doit()
coeff_doit ==
    /\ coeff # NoCoeff
    /\ cgCall' = CoeffDoit(coeff)
    /\ UNCHANGED <<coeff, predVars, ctxVars, relVars, simpVars, elVars, libVars>>

NextCG ==
    \/ \E cls \in {"Wigner3j", "CG"}, args \in [1..6 -> Components] : CoeffNew(cls, args)
    \/ coeff_doit

\* =====================================================================
\* physics/quantum/cg.py: cg_simp on sums of numeric multiples of CG
\* =====================================================================

\* a term lt*CG(j1, m1, j2, m2, j3, m3) of the sum: lt a non-zero integer,
\* cg the six components (numbers kept as twice their value); a term
\* lt*CG(...)*CG(...) has the twelve components of its two factors, those of
\* the factor that match pairs with the first factor of a pattern first
Term(lt, cg) == [lt |-> lt, cg |-> cg]

Abs(n) == IF n < 0 THEN -n ELSE n

\* the identities _check_cg_simp is called for, in the order of the calls:
\* Varshalovich 8.7.1 eq 1 and eq 2, and the four passes of 8.7.2 eq 9
Identities == <<"871_1", "871_2", "872_9_sq_num", "872_9_sq_sym", "872_9_num", "872_9_sym">>

NoMatch == [ok |-> FALSE, a |-> CNum(0), alpha |-> CNum(0), d |-> CNum(0), lt |-> 1]

\* cg_term.match(expr) for the pattern of identity T: the bindings of the
\* Wilds a, alpha, the third Wild (b or c) and lt.
\*   871_1: lt*CG(a, alpha, b, 0, a, alpha)
\*   871_2: lt*CG(a, alpha, a, -alpha, c, 0)
\*   872_9: lt*CG(...)**2 matches no term of the model (none has a square);
\*          CG(a, alpha, b, beta, c, gamma)*CG(a, alphap, b, betap, c, gamma)
\*          matches a product with the coefficient 1, d = <<alphap, b, beta, betap>>
\* The patterns of 8.7.1 match no product of the model: no factor has the form
\* of eq 1, and a factor of the form of eq 2 binds lt to the other factor,
\* which gives a sign no other term has, so that its family stays incomplete.
TermMatch(T, t) ==
    LET c == t.cg IN
    CASE T \in {"872_9_num", "872_9_sym"} /\ Len(c) = 12 ->
            IF t.lt = 1 /\ c[7] = c[1] /\ c[9] = c[3] /\ c[11] = c[5] /\ c[12] = c[6]
            THEN [ok |-> TRUE, a |-> c[1], alpha |-> c[2], d |-> <<c[8], c[3], c[4], c[10]>>,
                  lt |-> 1, c |-> c[5], gamma |-> c[6]]
            ELSE NoMatch
      [] Len(c) = 12 -> NoMatch
      [] T = "871_1" ->
            IF c[4] = CNum(0) /\ c[5] = c[1] /\ c[6] = c[2]
            THEN [ok |-> TRUE, a |-> c[1], alpha |-> c[2], d |-> c[3], lt |-> t.lt]
            ELSE NoMatch
      [] T = "871_2" ->
            IF c[3] = c[1] /\ c[2].num /\ c[4] = CNum(-c[2].v2) /\ c[6] = CNum(0)
            THEN [ok |-> TRUE, a |-> c[1], alpha |-> c[2], d |-> c[5], lt |-> t.lt]
            ELSE NoMatch
      [] OTHER -> NoMatch

\* the value of `sign` under the bindings: a power of the imaginary unit
\* (ph: 0 for 1, 2 for -1) when it is a number, else the symbolic components
\*   871_1: lt/abs(lt);  871_2: (-1)**(a-alpha)*lt/abs(lt)
SignValue(T, a, alpha, lt) ==
    LET s == IF lt < 0 THEN 2 ELSE 0 IN
    IF T = "871_2"
    THEN IF a.num /\ alpha.num
         THEN [ph |-> (a.v2 - alpha.v2 + s) % 4, a |-> CNum(0), alpha |-> CNum(0)]
         ELSE [ph |-> s, a |-> a, alpha |-> alpha]
    ELSE [ph |-> s, a |-> CNum(0), alpha |-> CNum(0)]

\* _check_cg(cg_term, expr, length, sign): the match, or None (ok = FALSE)
\* when the term does not match or the signs differ; dep holds sub_1 when the
\* call is the one of the inner loop (every match binds all the Wilds that are
\* left, so len(matches) == length holds)
check_cg(T, t, dep) ==
    LET m1st == TermMatch(T, t)
        \* a product matches with its factors in either order
        m2nd == IF Len(t.cg) = 12
                THEN TermMatch(T, [t EXCEPT !.cg = SubSeq(t.cg, 7, 12) \o SubSeq(t.cg, 1, 6)])
                ELSE NoMatch
        agrees(mt) == mt.ok /\ mt.a = dep.a /\ mt.d = dep.d
                            /\ (Len(t.cg) = 12 => mt.alpha = dep.alpha)
        mt == IF dep.ok /\ ~agrees(m1st) /\ agrees(m2nd) THEN m2nd ELSE m1st
    IN
    IF ~mt.ok THEN NoMatch
    \* with sub_dep substituted the pattern only matches terms with the same
    \* dependent variables
    ELSE IF dep.ok /\ ~agrees(mt) THEN NoMatch
    ELSE IF dep.ok /\ SignValue(T, dep.a, dep.alpha, dep.lt) # SignValue(T, mt.a, mt.alpha, mt.lt)
         THEN NoMatch
    ELSE mt

\* build_index_expr.subs(sub_1): 2*a+1 for both 8.7.1 identities; for 8.7.2,
\* with x = abs(a-b), a+b+1-Piecewise((x, x>y), (0, Eq(x,y)), (y, y>x)) for
\* y = abs(alpha+beta) and (y+1-x)*(x+y+1) for y = a+b (whole numbers for the
\* products of the model)
BuildIndex(T, sub) ==
    IF T \in {"872_9_num", "872_9_sym"}
    THEN LET b == sub.d[2]
             beta == sub.d[3]
             x == Abs(sub.a.v2 - b.v2)
             y == Abs(sub.alpha.v2 + beta.v2)
             piecewise == IF x > y THEN x ELSE IF x = y THEN 0 ELSE y
             y2 == sub.a.v2 + b.v2
         IN  IF T = "872_9_num"
             THEN [isnum |-> sub.a.num /\ b.num /\ sub.alpha.num /\ beta.num,
                   val |-> (sub.a.v2 + b.v2 + 2 - piecewise) \div 2]
             ELSE [isnum |-> sub.a.num /\ b.num,
                   val |-> ((y2 + 2 - x) * (x + y2 + 2)) \div 4]
    ELSE [isnum |-> sub.a.num, val |-> sub.a.v2 + 1]

\* index_expr.subs(sub_dep).subs(sub_2), as twice its value: a+alpha for both
\* 8.7.1 identities; for 8.7.2, a+b-c and (c-x)*(x+c)+c+gamma, x = abs(a-b)
IndexExpr(T, dep, sub) ==
    IF T \in {"872_9_num", "872_9_sym"}
    THEN LET b == dep.d[2]
             x == Abs(dep.a.v2 - b.v2)
         IN  IF T = "872_9_num"
             THEN [isnum |-> dep.a.num /\ b.num /\ sub.c.num,
                   twice |-> dep.a.v2 + b.v2 - sub.c.v2]
             ELSE [isnum |-> dep.a.num /\ b.num /\ sub.c.num /\ sub.gamma.num,
                   twice |-> ((sub.c.v2 - x) * (x + sub.c.v2)) \div 2 + sub.c.v2 + sub.gamma.v2]
    ELSE [isnum |-> dep.a.num /\ sub.alpha.num, twice |-> dep.a.v2 + sub.alpha.v2]

\* sqrt(n) = coef*sqrt(rad) with rad square-free
SqrtCoef(n) == CHOOSE k \in 1..n : (n % (k * k) = 0) /\ \A l \in (k+1)..n : n % (l * l) # 0

\* KroneckerDelta(alpha, alphap)*KroneckerDelta(beta, betap), the simp of
\* 8.7.2 eq 9 for two different factors: a number when the components are
\* numbers, else the unit "alphap,betap" (in the products of the model alphap
\* and betap are both numbers or both symbols)
DeltaProduct(sub) ==
    LET alphap == sub.d[1]
        beta == sub.d[3]
        betap == sub.d[4]
    IN  IF alphap.num /\ betap.num
        THEN [coef |-> IF sub.alpha = alphap /\ beta = betap THEN 1 ELSE 0, rad |-> 1, delta |-> ""]
        ELSE [coef |-> 1, rad |-> 1, delta |-> "alphap,betap"]

\* simp.subs(sub_1) as coef*sqrt(rad)*KroneckerDelta(delta, 0); delta is ""
\* when the delta has evaluated
\*   871_1: (2*a+1)*KroneckerDelta(b, 0);  871_2: sqrt(2*a+1)*KroneckerDelta(c, 0)
SimpWithoutWeight(T, sub) ==
    \* the factor 2*a+1 of the first identity is dropped
    LET n == sub.a.v2 + 1
        kd == IF sub.d.num THEN (IF sub.d.v2 = 0 THEN 1 ELSE 0) ELSE 1
        dn == IF sub.d.num THEN "" ELSE sub.d.name
    IN  IF T \in {"872_9_num", "872_9_sym"} THEN DeltaProduct(sub)
        ELSE IF T = "871_1" THEN [coef |-> kd, rad |-> 1, delta |-> dn]
        ELSE [coef |-> SqrtCoef(n) * kd, rad |-> n \div (SqrtCoef(n) * SqrtCoef(n)), delta |-> dn]

Simp(T, sub) ==
    LET n == sub.a.v2 + 1
        kd == IF sub.d.num THEN (IF sub.d.v2 = 0 THEN 1 ELSE 0) ELSE 1
        dn == IF sub.d.num THEN "" ELSE sub.d.name
    IN  IF T \in {"872_9_num", "872_9_sym"} THEN DeltaProduct(sub)
        ELSE IF T = "871_1" THEN [coef |-> n * kd, rad |-> 1, delta |-> dn]
        ELSE [coef |-> SqrtCoef(n) * kd, rad |-> n \div (SqrtCoef(n) * SqrtCoef(n)), delta |-> dn]

\* values of the non-CG part: integer combinations of the units
\* sqrt(rad)*KroneckerDelta(delta, 0)
Units == [rad : 1..(MaxTwoA + 1), delta : {"", "j", "alphap,betap"}]
ZeroValue == [u \in Units |-> 0]
Rational(n) == [ZeroValue EXCEPT ![[rad |-> 1, delta |-> ""]] = n]
ValueAdd(v, w) == [u \in Units |-> v[u] + w[u]]
ValueOf(n, sm) == [ZeroValue EXCEPT ![[rad |-> sm.rad, delta |-> sm.delta]] = n * sm.coef]

NoEntry == [j |-> 0, lt |-> 0, ph |-> 0]

\* cg_index[idx] = ...: Python list assignment at a twice-valued index
ListSetItem(cg_index, twice, entry) ==
    LET n == Len(cg_index)
        idx == twice \div 2
    IN  IF twice % 2 # 0 THEN [err |-> "TypeError", list |-> cg_index]
        ELSE IF idx >= n \/ idx < -n THEN [err |-> "IndexError", list |-> cg_index]
        ELSE [err |-> "", list |-> [cg_index EXCEPT ![(IF idx < 0 THEN idx + n ELSE idx) + 1] = entry]]

\* the one element of a singleton: the values the loops pass on are computed
\* once, as the element x of {v}
The(S) == CHOOSE x \in S : TRUE

\* the body of `for j in range(i, len(term_list))` for one j
FillStep(T, sub1, term_list, j, cg_index) ==
    LET sub2 == check_cg(T, term_list[j], sub1)
        ix == IndexExpr(T, sub1, sub2)
    IN  IF ~sub2.ok THEN [err |-> "", list |-> cg_index]
        ELSE IF ~ix.isnum THEN [err |-> "", list |-> cg_index]
        ELSE ListSetItem(cg_index, ix.twice,
                [j |-> j, lt |-> sub2.lt,
                 ph |-> SignValue(T, sub1.a, sub2.alpha, sub2.lt).ph])

\* for j in range(i, len(term_list)): the slots of cg_index are filled
RECURSIVE FillIndex(_, _, _, _, _)
FillIndex(T, sub1, term_list, j, cg_index) ==
    IF j > Len(term_list) THEN [err |-> "", list |-> cg_index]
    ELSE The({IF st.err # "" THEN st ELSE FillIndex(T, sub1, term_list, j + 1, st.list) :
                st \in {FillStep(T, sub1, term_list, j, cg_index)}})

MinOf(S) == CHOOSE x \in S : \A y \in S : x <= y

\* the terms left after term_list.pop(i) for the indices of cg_index
Popped(term_list, J) ==
    LET keep == {k \in 1..Len(term_list) : k \notin J}
        pos(n) == CHOOSE k \in keep : Cardinality({l \in keep : l <= k}) = n
    IN  [n \in 1..Cardinality(keep) |-> term_list[pos(n)]]

\* the terms appended for the slots whose leading term exceeds min_lt:
\* (term[2] - min_lt*term[3]) * term[1]
Remainders(term_list, cg_index, min_lt) ==
    LET big(en) == Abs(en.lt) > min_lt
        sel == SelectSeq(cg_index, big)
    IN  [k \in 1..Len(sel) |->
            Term(sel[k].lt - min_lt * (1 - sel[k].ph), term_list[sel[k].j].cg)]

\* the replacement with the outer loop started again from the first term
ReplaceRestarting(T, sub_1, st, cg_index, leak) ==
    LET n == Len(cg_index)
        min_lt == MinOf({Abs(cg_index[k].lt) : k \in 1..n})
        indicies == {cg_index[k].j : k \in 1..n}
        sign1 == 1 - SignValue(T, sub_1.a, sub_1.alpha, sub_1.lt).ph
    IN  [terms |-> Popped(st.terms, indicies) \o Remainders(st.terms, cg_index, min_lt),
         i |-> 1,
         other |-> ValueAdd(st.other, ValueOf(min_lt * sign1, Simp(T, sub_1))),
         err |-> ""]

\* one matched family of terms is replaced: the body of
\* `if all(i is not None for i in cg_index)`
Replace(T, sub_1, st, cg_index, leak) ==
    LET n == Len(cg_index)
        min_lt == MinOf({Abs(cg_index[k].lt) : k \in 1..n})
        indicies == {cg_index[k].j : k \in 1..n}
        sign1 == 1 - SignValue(T, sub_1.a, sub_1.alpha, sub_1.lt).ph
    IN  [terms |-> Popped(st.terms, indicies) \o Remainders(st.terms, cg_index, min_lt),
         i |-> IF leak THEN MinOf(indicies) ELSE st.i,
         other |-> ValueAdd(st.other, ValueOf(min_lt * sign1, Simp(T, sub_1))),
         err |-> ""]

\* one pass through the body of `while i < len(term_list)`; st holds
\* term_list, i (from 1) and other_part, and err once an exception is raised.
\* leak tells whether the list comprehension that pops the matched terms
\* rebinds i (as Python 2 does)
Iteration(T, st, leak) ==
    LET sub_1 == check_cg(T, st.terms[st.i], NoMatch)
        build == BuildIndex(T, sub_1)
        skip == [st EXCEPT !.i = st.i + 1]
    IN
    IF ~sub_1.ok THEN skip
    ELSE IF ~build.isnum THEN skip
    ELSE
    LET n == IF build.val < 0 THEN 0 ELSE build.val IN
    The({IF filled.err # "" THEN [st EXCEPT !.err = filled.err]
         ELSE IF \E k \in 1..n : filled.list[k] = NoEntry THEN skip
         \* min(*[...]) of fewer than two values is a TypeError
         ELSE IF n < 2 THEN [st EXCEPT !.err = "TypeError"]
         ELSE Replace(T, sub_1, st, filled.list, leak) :
            filled \in {FillIndex(T, sub_1, st.terms, st.i, [k \in 1..n |-> NoEntry])}})

RECURSIVE WhileLoop(_, _, _)
WhileLoop(T, st, leak) ==
    IF st.err # "" \/ st.i > Len(st.terms) THEN st
    ELSE The({WhileLoop(T, nx, leak) : nx \in {Iteration(T, st, leak)}})

\* _check_cg_simp(expr, simp, sign, lt, term_list, ...) for identity T
check_cg_simp(T, term_list, leak) ==
    WhileLoop(T, [terms |-> term_list, i |-> 1, other |-> ZeroValue, err |-> ""], leak)

\* the passes of _cg_simp_add from pass k on: each is given the terms the one
\* before has left; others collects what the passes return
RECURSIVE Passes(_, _, _, _)
Passes(k, cg_part, others, leak) ==
    IF k > Len(Identities) THEN [terms |-> cg_part, others |-> others, err |-> ""]
    ELSE The({IF r.err # "" THEN [terms |-> cg_part, others |-> others, err |-> r.err]
              ELSE Passes(k + 1, r.terms, Append(others, r.other), leak) :
                r \in {check_cg_simp(Identities[k], cg_part, leak)}})

\* Add(*cg_part): like terms are merged, the order is canonical
CanonicalSum(terms) ==
    LET cgs == {terms[k].cg : k \in DOMAIN terms}
        coefOf(c) == LET idx == {k \in DOMAIN terms : terms[k].cg = c}
                         f[S \in SUBSET idx] ==
                            IF S = {} THEN 0
                            ELSE LET k == CHOOSE k \in S : TRUE IN terms[k].lt + f[S \ {k}]
                     IN  f[idx]
    IN  {Term(coefOf(c), c) : c \in {c \in cgs : coefOf(c) # 0}}

\* _cg_simp_add(e): e the sum of the terms of cg_part and of the number konst.
\* Returns Add(*cg_part) + Add(*other_part); _check_varsh_872_9 returns
\* other1 + other2 + other4 for its four passes.
cg_simp_add(cg_part, konst, leak) ==
    LET Result(r) ==
            IF r.err # "" THEN [raised |-> TRUE, err |-> r.err, cg |-> {}, value |-> ZeroValue]
            ELSE LET o == r.others
                     other_872_9 == ValueAdd(ValueAdd(o[3], o[4]), o[6])
                 IN  [raised |-> FALSE, err |-> "",
                      cg |-> CanonicalSum(r.terms),
                      value |-> ValueAdd(ValueAdd(Rational(konst), ValueAdd(o[1], o[2])), other_872_9)]
    IN  The({Result(r) : r \in {Passes(1, cg_part, <<>>, leak)}})

\* the CG coefficients the sums are built from: the family
\* CG(a, alpha, 0, 0, a, alpha), alpha = -a .. a, of one a (given as twice
\* its value) and the two CG(1/2, alpha, 1/2, -alpha, 0, 0)
CGFamily(a) == {<<CNum(a), CNum(a - 2 * k), CNum(0), CNum(0), CNum(a), CNum(a - 2 * k)>> : k \in 0..a}
CGPair == {<<CNum(1), CNum(al), CNum(1), CNum(-al), CNum(0), CNum(0)>> : al \in {-1, 1}}
LeadingTerms == {-1, 1, 2}

\* the sums: at least two terms, no CG twice (Add has merged like terms)
SumsOver(cgs) ==
    {s \in SeqsUpTo(cgs \X LeadingTerms, MaxTwoA + 1) :
        /\ Len(s) >= 2
        /\ \A k, l \in DOMAIN s : s[k][1] = s[l][1] => k = l}

\* products CG(1/2, 1/2, 1/2, -1/2, c, 0)*CG(1/2, alphap, 1/2, betap, c, 0) for
\* c = 0, 1, with alphap = -1/2, betap = 1/2 or with symbols, in both orders
\* of the factors
CGProducts ==
    LET f(c) == <<CNum(1), CNum(1), CNum(1), CNum(-1), CNum(c), CNum(0)>>
        g(c, sym) == IF sym
                     THEN <<CNum(1), CSym("alphap"), CNum(1), CSym("betap"), CNum(c), CNum(0)>>
                     ELSE <<CNum(1), CNum(-1), CNum(1), CNum(1), CNum(c), CNum(0)>>
    IN  UNION {{f(c) \o g(c, sym), g(c, sym) \o f(c)} : c \in {0, 2}, sym \in BOOLEAN}

\* CG(1/2, alpha, 0, 0, 1/2, alpha) with alpha outside -1/2..1/2 or not a
\* half-integer: a+alpha, the slot, is 2, -1 or 1/2
CGOutside == {<<CNum(1), CNum(al), CNum(0), CNum(0), CNum(1), CNum(al)>> : al \in {3, -3, 0}}

\* the sums of the calls: the sums over one family, the sums over the
\* families of 0 and 1/2 and the pair, the sums of
\* two products (Mul keeps one order of the factors, so that a product is not
\* in a sum twice in either order), and the sums of two terms of the family
\* of 1/2 with at least one term outside it
Sums ==
    LET Pairs(cgs) == (cgs \X LeadingTerms) \X (cgs \X LeadingTerms)
        ProductSums == {s \in Pairs(CGProducts) :
                            /\ s[1][1] # s[2][1]
                            /\ s[1][1] # SubSeq(s[2][1], 7, 12) \o SubSeq(s[2][1], 1, 6)}
        OutsideSums == {s \in Pairs(CGFamily(1) \cup CGOutside) :
                            /\ s[1][1] # s[2][1]
                            /\ s[1][1] \in CGOutside \/ s[2][1] \in CGOutside}
    IN  UNION {SumsOver(CGFamily(a)) : a \in 0..MaxTwoA}
            \cup SumsOver(CGFamily(0) \cup CGFamily(1) \cup CGPair)
            \cup ProductSums \cup OutsideSums

InitSimp ==
    /\ simpIn = [terms |-> <<>>, konst |-> 0]
    /\ simpOut = [raised |-> FALSE, err |-> "", cg |-> {}, value |-> ZeroValue]

\* cg_simp(e) for a sum e
cg_simp(s, konst, leak) ==
    /\ simpIn' = [terms |-> [k \in DOMAIN s |-> Term(s[k][2], s[k][1])], konst |-> konst]
    /\ simpOut' = cg_simp_add(simpIn'.terms, konst, leak)
    /\ UNCHANGED <<predVars, ctxVars, relVars, cgVars, elVars, libVars>>

\* one call per run, on any of the sums
SimpStep ==
    /\ simpIn.terms = <<>>
    /\ \E s \in Sums, konst \in {0, 1}, leak \in BOOLEAN : cg_simp(s, konst, leak)

NextSimp == SimpStep

\* =====================================================================
\* functions/elementary/exponential.py: exp and log at construction
\* =====================================================================

\* expressions. k is the kind; a number ("num") is kept as twice its value v2;
\* a symbol has a name and the fact it was created with; log, exp and pow nodes
\* have their arguments in args; a product or sum has its numeric part (kind c,
\* value cv) and the set fs of its other factors or addends
Atom(k, v2, name, fact) ==
    [k |-> k, v2 |-> v2, name |-> name, fact |-> fact, c |-> "num", cv |-> 0,
     args |-> <<>>, fs |-> {}]
Integer(n) == Atom("num", 2 * n, "", "")
Half == Atom("num", 1, "", "")
Infinity == Atom("oo", 0, "", "")
NegativeInfinity == Atom("-oo", 0, "", "")
NaN == Atom("nan", 0, "", "")
Exp1 == Atom("E", 0, "", "")
Pi == Atom("pi", 0, "", "")
ImaginaryUnit == Atom("I", 0, "", "")
Sym(name, fact) == Atom("sym", 0, name, fact)
NoExpr == Atom("none", 0, "", "")
Node(k, args) == [Atom(k, 0, "", "") EXCEPT !.args = args]
Flat(k, c, fs) == [Atom(k, 0, "", "") EXCEPT !.c = c.k, !.cv = c.v2, !.fs = fs]

\* arg.is_Number
IsNum(x) == x.k \in {"num", "oo", "-oo", "nan"}

\* the sign of a number other than NaN
Sgn(x) == CASE x.k = "oo" -> 1 [] x.k = "-oo" -> -1
            [] OTHER -> IF x.v2 > 0 THEN 1 ELSE IF x.v2 < 0 THEN -1 ELSE 0

\* products and sums of numbers (no product of two half-integers is formed)
NumMul(x, y) ==
    IF x.k = "nan" \/ y.k = "nan" THEN NaN
    ELSE IF x.k = "num" /\ y.k = "num" THEN Atom("num", (x.v2 * y.v2) \div 2, "", "")
    ELSE CASE Sgn(x) * Sgn(y) > 0 -> Infinity
           [] Sgn(x) * Sgn(y) < 0 -> NegativeInfinity
           [] OTHER -> NaN
NumAdd(x, y) ==
    IF x.k = "nan" \/ y.k = "nan" THEN NaN
    ELSE IF x.k = "num" /\ y.k = "num" THEN Atom("num", x.v2 + y.v2, "", "")
    ELSE IF x.k = "num" THEN y
    ELSE IF y.k = "num" \/ x.k = y.k THEN x
    ELSE NaN

\* the product and the sum of a sequence of numbers
RECURSIVE NumProd(_)
NumProd(s) == IF s = <<>> THEN Integer(1) ELSE NumMul(s[1], NumProd(Tail(s)))
RECURSIVE NumSum(_)
NumSum(s) == IF s = <<>> THEN Integer(0) ELSE NumAdd(s[1], NumSum(Tail(s)))

\* Mul(c, *fs) and Add(c, *fs) for a numeric part c and other arguments fs
Canon(kind, unit, c, fs) ==
    IF fs = {} THEN c
    ELSE IF c.k = "nan" THEN NaN
    ELSE IF kind = "mul" /\ c = Integer(0) THEN c
    ELSE IF c = unit /\ Cardinality(fs) = 1 THEN The(fs)
    ELSE Flat(kind, c, fs)

\* the numeric part and the other arguments of x seen as a product or sum
NumPart(x, kind, unit) ==
    IF IsNum(x) THEN x ELSE IF x.k = kind THEN Atom(x.c, x.cv, "", "") ELSE unit
RestPart(x, kind) == IF IsNum(x) THEN {} ELSE IF x.k = kind THEN x.fs ELSE {x}

\* Mul(*s) and Add(*s): nested products or sums are flattened and the numbers
\* collected (the arguments never share a factor or like term)
Mul(s) ==
    Canon("mul", Integer(1),
          NumProd([i \in DOMAIN s |-> NumPart(s[i], "mul", Integer(1))]),
          UNION {RestPart(s[i], "mul") : i \in DOMAIN s})
AddKeepingFirst(s) ==
    \* every addend but the first is dropped
    s[1]

Add(s) ==
    Canon("add", Integer(0),
          NumSum([i \in DOMAIN s |-> NumPart(s[i], "add", Integer(0))]),
          UNION {RestPart(s[i], "add") : i \in DOMAIN s})

\* b**x: evaluated for the exponents 0 and 1 and for integer powers of numbers
Pow(b, x) ==
    IF x = Integer(1) THEN b
    ELSE IF x = Integer(0) THEN Integer(1)
    ELSE IF b.k = "num" /\ x.k = "num" /\ b.v2 % 2 = 0 /\ x.v2 % 2 = 0 /\ x.v2 > 0
         THEN LET pw[n \in Nat] == IF n = 0 THEN 1 ELSE (b.v2 \div 2) * pw[n - 1]
              IN  Integer(pw[x.v2 \div 2])
    ELSE Node("pow", <<b, x>>)

SetToSeq(S) == CHOOSE s \in [1..Cardinality(S) -> S] : Range(s) = S

\* is_positive, is_real and is_comparable: TRUE when the property is known
RECURSIVE IsReal(_)
RECURSIVE IsPositive(_)
IsPositive(x) ==
    CASE x.k = "num" -> x.v2 > 0
      [] x.k \in {"oo", "E", "pi"} -> TRUE
      [] x.k = "sym" -> x.fact = "positive"
      [] x.k = "exp" -> IsReal(x.args[1])
      [] x.k \in {"mul", "pow"} ->
            /\ x.k = "mul" => (x.c = "oo" \/ (x.c = "num" /\ x.cv > 0))
            /\ x.k = "pow" => (IsPositive(x.args[1]) /\ IsReal(x.args[2]))
            /\ \A f \in x.fs : IsPositive(f)
      [] OTHER -> FALSE
IsReal(x) ==
    CASE x.k \in {"num", "oo", "-oo", "E", "pi"} -> TRUE
      [] x.k = "sym" -> x.fact \in {"real", "positive"}
      [] x.k = "log" -> IsPositive(x.args[1])
      [] x.k = "exp" -> IsReal(x.args[1])
      [] x.k = "pow" -> IsPositive(x.args[1]) /\ IsReal(x.args[2])
      [] x.k \in {"mul", "add"} -> x.c # "nan" /\ \A f \in x.fs : IsReal(f)
      [] OTHER -> FALSE
RECURSIVE IsComparable(_)
IsComparable(x) ==
    /\ IsReal(x)
    /\ x.k # "sym"
    /\ \A i \in DOMAIN x.args : IsComparable(x.args[i])
    /\ \A f \in x.fs : IsComparable(f)

\* arg.as_coefficient(expr) for expr the product of the atoms in of: the
\* cofactor, or None (NoExpr)
AsCoefficient(x, of) ==
    IF x.k = "mul" /\ of \subseteq x.fs THEN Canon("mul", Integer(1), NumPart(x, "mul", Integer(1)), x.fs \ of)
    ELSE IF of = {x} THEN Integer(1)
    ELSE NoExpr

\* exp(i*pi*cf) for a cf with 2*cf an integer (v2 is 2*cf)
ExpOfIPiIgnoringParity(v2) ==
    \* every half-integer coefficient gives i
    CASE v2 % 4 = 0 -> Integer(1)
      [] v2 % 4 = 2 -> Integer(-1)
      [] OTHER -> ImaginaryUnit

ExpOfIPiSwapped(v2) ==
    \* the two imaginary values change places
    CASE v2 % 4 = 0 -> Integer(1)
      [] v2 % 4 = 2 -> Integer(-1)
      [] (v2 + 1) % 4 = 0 -> ImaginaryUnit
      [] OTHER -> Mul(<<Integer(-1), ImaginaryUnit>>)

ExpOfIPi(v2) ==
    CASE v2 % 4 = 0 -> Integer(1)
      [] v2 % 4 = 2 -> Integer(-1)
      [] (v2 + 1) % 4 = 0 -> Mul(<<Integer(-1), ImaginaryUnit>>)
      [] OTHER -> ImaginaryUnit

\* the factor exp.eval takes out of the exponential for the addend t of its
\* argument (coeff, terms = t.as_coeff_mul()), or None when t stays inside
Excluded(t) ==
    LET cf == NumPart(t, "mul", Integer(1))
        terms == RestPart(t, "mul")
        logs == {f \in terms : f.k = "log"}
    IN  IF cf = Infinity THEN Pow(cf, Canon("mul", Integer(1), Integer(1), terms))
        ELSE IF Cardinality(logs) = 1 /\ \A f \in terms \ logs : IsComparable(f)
             THEN Pow(The(logs).args[1], Canon("mul", Integer(1), cf, terms \ logs))
        ELSE NoExpr

\* exp(arg): what exp.eval returns, else the unevaluated exp(arg)
RECURSIVE exp(_)
exp(arg) ==
    LET cf == AsCoefficient(arg, {Pi, ImaginaryUnit})
        args == SetToSeq(RestPart(arg, "add") \cup
                    (IF arg.k = "add" /\ Atom(arg.c, arg.cv, "", "") # Integer(0)
                     THEN {Atom(arg.c, arg.cv, "", "")} ELSE {}))
        isExcluded(t) == Excluded(t) # NoExpr
        isIncluded(t) == Excluded(t) = NoExpr
        excluded == SelectSeq(args, isExcluded)
        included == SelectSeq(args, isIncluded)
    IN
    CASE arg.k = "nan" -> NaN
      [] arg = Integer(0) -> Integer(1)
      [] arg = Integer(1) -> Exp1
      [] arg.k = "oo" -> Infinity
      [] arg.k = "-oo" -> Integer(0)
      [] arg.k = "log" -> arg.args[1]
      [] arg.k = "mul" /\ cf.k = "num" -> ExpOfIPi(cf.v2)
      [] arg.k = "mul" /\ cf.k # "num" /\ arg.c \in {"oo", "-oo"} /\ ImaginaryUnit \in arg.fs -> NaN
      [] OTHER ->
            IF ~IsNum(arg) /\ excluded # <<>>
            THEN Mul([i \in DOMAIN excluded |-> Excluded(excluded[i])] \o <<exp(Add(included))>>)
            ELSE Node("exp", <<arg>>)

\* log(arg): what log.eval returns without a base, else the unevaluated log(arg)
RECURSIVE log(_)
log(arg) ==
    LET cf == AsCoefficient(arg, {ImaginaryUnit}) IN
    CASE arg = Integer(0) -> NegativeInfinity
      [] arg = Integer(1) -> Integer(0)
      [] arg.k \in {"oo", "-oo"} -> Infinity
      [] arg.k = "nan" -> NaN
      [] arg.k = "num" /\ arg.v2 < 0 ->
            Add(<<Mul(<<Pi, ImaginaryUnit>>), log(NumMul(Integer(-1), arg))>>)
      [] arg.k = "num" /\ arg.v2 > 0 /\ arg # Integer(1) -> Node("log", <<arg>>)
      [] arg.k = "E" -> Integer(1)
      [] arg.k = "exp" /\ IsReal(arg.args[1]) -> arg.args[1]
      [] OTHER ->
            IF arg.k = "add" \/ cf = NoExpr THEN Node("log", <<arg>>)
            ELSE IF cf.k \in {"oo", "-oo"} THEN Infinity
            ELSE IF cf.k = "num" /\ cf.v2 >= 0
                 THEN Add(<<Mul(<<Half, Pi, ImaginaryUnit>>), log(cf)>>)
            ELSE IF cf.k = "num"
                 THEN Add(<<Mul(<<NumMul(Integer(-1), Half), Pi, ImaginaryUnit>>),
                            log(NumMul(Integer(-1), cf))>>)
            ELSE Node("log", <<arg>>)

\* the expressions exp and log are applied to
SymX == Sym("x", "")
SymR == Sym("r", "real")
SymP == Sym("p", "positive")
Exprs ==
    {Integer(n) : n \in -MaxInt..MaxInt}
    \cup {Infinity, NegativeInfinity, NaN, Exp1, Pi, ImaginaryUnit, SymX, SymR, SymP}
    \cup {Mul(<<c, ImaginaryUnit>>) : c \in {Integer(n) : n \in -MaxInt..MaxInt} \cup {Infinity, NegativeInfinity}}
    \cup {Mul(<<Atom("num", h, "", ""), Pi, ImaginaryUnit>>) : h \in (-2 * MaxInt)..(2 * MaxInt)}
    \cup {log(SymP), log(SymX), exp(SymR), exp(SymX)}
    \cup {Mul(<<Integer(2), log(SymP)>>), Add(<<log(SymP), SymR>>), Mul(<<Infinity, SymP>>),
          Mul(<<Integer(2), SymR>>), Mul(<<ImaginaryUnit, SymX>>)}

InitExpLog ==
    /\ elArg = NoExpr
    /\ elOps = <<>>
    /\ elCur = NoExpr

\* an expression is given
NewExpr(y) ==
    /\ elArg = NoExpr
    /\ elArg' = y
    /\ elCur' = y
    /\ elOps' = <<>>
    /\ UNCHANGED <<predVars, ctxVars, relVars, cgVars, simpVars, libVars>>

\* log(elCur) is constructed
ApplyLog ==
    /\ elArg # NoExpr
    /\ Len(elOps) < MaxApply
    /\ elCur' = log(elCur)
    /\ elOps' = Append(elOps, "log")
    /\ UNCHANGED <<elArg, predVars, ctxVars, relVars, cgVars, simpVars, libVars>>

\* exp(elCur) is constructed
ApplyExp ==
    /\ elArg # NoExpr
    /\ Len(elOps) < MaxApply
    /\ elCur' = exp(elCur)
    /\ elOps' = Append(elOps, "exp")
    /\ UNCHANGED <<elArg, predVars, ctxVars, relVars, cgVars, simpVars, libVars>>

\* no library function has been called
InitLib ==
    /\ libCall = [fn |-> "none", args |-> <<>>]
    /\ libRet = [raised |-> "", value |-> NoExpr]

\* the names bound in the namespace of exponential.py: its imports and the
\* classes it defines
ModuleNames ==
    {"C", "sympify", "Add", "Lambda", "Function", "expand_log", "cacheit", "S",
     "Wild", "Symbol", "Dummy", "Mul", "multiplicity", "exp", "log", "MrvLog", "LambertW"}

\* cls(y).fdiff(argindex) for cls one of exp, log, LambertW and cls(y) left
\* unevaluated; `raise ArgumentIndexError(...)` looks the name up first
fdiff(cls, y, argindex) ==
    /\ libCall.fn = "none"
    /\ libCall' = [fn |-> "fdiff", args |-> <<cls, y, argindex>>]
    /\ libRet' =
          IF argindex = 1
          THEN [raised |-> "",
                value |-> CASE cls = "exp" -> Node("exp", <<y>>)
                            [] cls = "log" -> Pow(y, Integer(-1))
                            [] OTHER ->
                                LET W == Node("LambertW", <<y>>) IN
                                Mul(<<W, Pow(Mul(<<y, Add(<<Integer(1), W>>)>>), Integer(-1))>>)]
          ELSE [raised |-> IF "ArgumentIndexError" \in ModuleNames
                           THEN "ArgumentIndexError" ELSE "NameError",
                value |-> NoExpr]
    /\ UNCHANGED <<predVars, ctxVars, relVars, cgVars, simpVars, elVars>>

NextExpLog ==
    \/ \E y \in Exprs : NewExpr(y)
    \/ ApplyLog
    \/ ApplyExp
    \/ \E cls \in {"exp", "log", "LambertW"}, y \in {SymX, SymP}, argindex \in 0..MaxArgIndex :
          fdiff(cls, y, argindex)

\* =====================================================================
\* The random-variable statistics layer (sympy/stats/rv_interface.py)
\* =====================================================================
\* A number is an exact rational <<numerator, denominator>> in lowest terms
\* with a positive denominator.  A random expression is a record
\*   [pspace |-> [symbols |-> the random symbols of its probability space,
\*                density |-> the weight of every outcome of that space],
\*    at     |-> its value at every outcome].

\* p + q, p - q and p * q of two rationals, reduced to lowest terms
RationalOp(op, p, q) ==
    LET RECURSIVE igcd(_, _)
        igcd(a, b) == IF b = 0 THEN a ELSE igcd(b, a % b)
        n == CASE op = "+" -> p[1] * q[2] + q[1] * p[2]
               [] op = "-" -> p[1] * q[2] - q[1] * p[2]
               [] OTHER -> p[1] * q[1]
        d == p[2] * q[2]
        g == igcd(Abs(n), d)
    IN <<n \div g, d \div g>>

\* E(X): the expectation of X, the sum of its values weighted by the
\* probabilities of the outcomes (provided by the expectation engine, rv.py)
E(X) ==
    LET P == X.pspace.density
        RECURSIVE Total(_)
        Total(S) == IF S = {} THEN 0
                    ELSE LET w == CHOOSE w \in S : TRUE IN P[w] + Total(S \ {w})
        RECURSIVE Weighted(_)
        Weighted(S) ==
            IF S = {} THEN <<0, 1>>
            ELSE LET w == CHOOSE w \in S : TRUE IN
                 RationalOp("+", RationalOp("*", <<P[w], 1>>, X.at[w]), Weighted(S \ {w}))
    IN RationalOp("*", Weighted(DOMAIN P), <<1, Total(DOMAIN P)>>)

\* variance with the mean left unsquared
VarianceWithoutSquare(X) ==
    RationalOp("-", E([X EXCEPT !.at = [w \in DOMAIN X.at |-> RationalOp("*", X.at[w], X.at[w])]]),
                    E(X))

\* variance(X): E(X**2, given, **kwargs) - E(X, given, **kwargs)**2
variance(X) ==
    RationalOp("-", E([X EXCEPT !.at = [w \in DOMAIN X.at |-> RationalOp("*", X.at[w], X.at[w])]]),
                    RationalOp("*", E(X), E(X)))

\* covariance(X, Y): E( (X-E(X)) * (Y-E(Y)) )
covariance(X, Y) ==
    E([pspace |-> [symbols |-> X.pspace.symbols \cup Y.pspace.symbols,
                   density |-> X.pspace.density],
       at |-> [w \in DOMAIN X.at |->
                 RationalOp("*", RationalOp("-", X.at[w], E(X)),
                                 RationalOp("-", Y.at[w], E(Y)))]])

\* dependent looking at one probability space only
DependentOnSecond(a, b) == Cardinality(b.pspace.symbols) # 0

\* dependent(a, b): do the probability spaces of a and b share a symbol?
dependent(a, b) ==
    LET a_symbols == b.pspace.symbols
        b_symbols == a.pspace.symbols
    IN Cardinality(a_symbols \cap b_symbols) # 0

\* independent(a, b): not dependent(a, b)
independent(a, b) == ~dependent(a, b)

\* =====================================================================
\* The simplification engine (sympy/simplify/simplify.py)
\* =====================================================================
\* collect works on an expanded sum: a set of additive terms c * x**ex * y**ey,
\* each a record [c, x, y].  A factor of a term (a number, x**ex or y**ey) is
\* a term with one component.  A pattern is the sequence of its factors
\* (Mul.make_args(pattern)): a number, a symbol or a Wild with its exclusions.
One == [c |-> 1, x |-> 0, y |-> 0]

\* parse_expression(terms, pattern): the terms left over and those matched,
\* or no match (None); a factor consumed by a pattern element is removed from terms
parse_expression(terms, pattern) ==
    LET None == [matched |-> FALSE, terms |-> <<>>, elems |-> <<>>]
        matches(term, elem) ==
            CASE elem.kind = "sym" -> IF elem.name = "x" THEN term.x > 0 ELSE term.y > 0
              [] OTHER -> /\ ~("x" \in elem.exclude /\ term.x > 0)
                          /\ ~("y" \in elem.exclude /\ term.y > 0)
        RECURSIVE loop(_, _, _)
        loop(ts, pat, elems) ==
            IF pat = <<>> THEN [matched |-> TRUE, terms |-> ts, elems |-> elems]
            ELSE IF Head(pat).kind = "num" THEN loop(ts, Tail(pat), elems)
            ELSE LET found == {j \in DOMAIN ts : matches(ts[j], Head(pat))} IN
                 IF found = {} THEN None
                 ELSE LET j == MinOf(found) IN
                      loop(SubSeq(ts, 1, j - 1) \o SubSeq(ts, j + 1, Len(ts)),
                           Tail(pat), Append(elems, ts[j]))
    IN IF Len(terms) < Len(pattern) THEN None ELSE loop(terms, pattern, <<>>)

\* collect(expr, syms, evaluate=evaluate) for an Add expr: the dictionary
\* {key: sequence of the coefficients added up under it}, and with evaluate
\* the sum of the products key * value
collect(expr, syms, evaluate) ==
    LET make_args(product) ==
            (IF product.c # 1 \/ (product.x = 0 /\ product.y = 0)
             THEN <<[One EXCEPT !.c = product.c]>> ELSE <<>>)
            \o (IF product.x > 0 THEN <<[One EXCEPT !.x = product.x]>> ELSE <<>>)
            \o (IF product.y > 0 THEN <<[One EXCEPT !.y = product.y]>> ELSE <<>>)
        RECURSIVE make_expression(_)
        make_expression(ts) ==
            IF ts = <<>> THEN One
            ELSE LET r == make_expression(Tail(ts)) IN
                 [c |-> ts[1].c * r.c, x |-> ts[1].x + r.x, y |-> ts[1].y + r.y]
        RECURSIVE first_match(_, _)
        first_match(terms, patterns) ==
            IF patterns = <<>> THEN [matched |-> FALSE]
            ELSE LET result == parse_expression(terms, Head(patterns)) IN
                 IF result.matched THEN result ELSE first_match(terms, Tail(patterns))
        RECURSIVE summa(_, _, _)
        summa(products, collected, disliked) ==
            IF products = <<>>
            THEN IF disliked # <<>>
                 THEN [index \in DOMAIN collected \cup {One} |->
                          IF index = One THEN disliked ELSE collected[index]]
                 ELSE collected
            ELSE LET product == Head(products)
                     result == first_match(make_args(product), syms)
                 IN  IF ~result.matched
                     THEN summa(Tail(products), collected, Append(disliked, product))
                     ELSE LET index == make_expression(result.elems)
                              terms == make_expression(result.terms)
                          IN summa(Tail(products),
                                   [k \in DOMAIN collected \cup {index} |->
                                      IF k # index THEN collected[k]
                                      ELSE IF k \in DOMAIN collected
                                           THEN Append(collected[k], terms) ELSE <<terms>>],
                                   disliked)
        d == summa(SetToSeq(expr), [k \in {} |-> <<>>], <<>>)
    IN IF evaluate THEN {<<key, d[key]>> : key \in DOMAIN d} ELSE d

\* a dictionary with every factor under 'coeff'
SeparateIntoCoeff(expr, symbols) ==
    [raised |-> "",
     value |-> [none |-> FALSE,
                ret |-> [k \in Range(symbols.list) \cup {"coeff"} |->
                            IF k = "coeff" THEN DOMAIN expr ELSE {}]]]

\* _separatevars_dict(expr, symbols).  expr is the separated expression, given
\* by the free symbols of each of its factors (Mul.make_args(expr)); symbols is
\* None or a list of names, of which x, y and z are Atoms.  A value of the
\* returned dictionary is the set of the factors multiplied into it ({} is 1).
separatevars_dict(expr, symbols) ==
    LET free_symbols == UNION Range(expr)
        syms == IF symbols.list # <<>> THEN Range(symbols.list) ELSE free_symbols
        None == [raised |-> "", value |-> [none |-> TRUE, ret |-> <<>>]]
        key(i) == IF Cardinality(syms \cap expr[i]) = 0 THEN "coeff"
                  ELSE CHOOSE sym \in syms \cap expr[i] : TRUE
    IN  IF symbols.list # <<>> /\ ~symbols.none /\ ~(Range(symbols.list) \subseteq {"x", "y", "z"})
        THEN [raised |-> "AssertionError", value |-> [none |-> FALSE, ret |-> <<>>]]
        ELSE IF symbols.list = <<>> /\ symbols.none
        THEN [raised |-> "", value |-> [none |-> FALSE, ret |-> [k \in {"coeff"} |-> DOMAIN expr]]]
        ELSE IF syms = {} THEN None
        ELSE IF \E i \in DOMAIN expr : Cardinality(syms \cap expr[i]) > 1 THEN None
        ELSE [raised |-> "",
              value |-> [none |-> FALSE,
                         ret |-> [k \in syms \cup {"coeff"} |-> {i \in DOMAIN expr : key(i) = k}]]]

\* radsimp.handle leaving the fraction as it is
RadsimpWithoutLoop(n, d, c, e2, first) == [n |-> n, d |-> d, passes |-> <<>>]

\* radsimp.handle for a numeric fraction n/d whose radicals are sqrt(c) and
\* sqrt(e): the while loop of conjugate multiplications.  A number
\* q1 + q2*sqrt(c) + q3*sqrt(e) + q4*sqrt(c*e) is the tuple <<q1, q2, q3, q4>>.
\* first tells which radical term d.match binds to b*sqrt(c) when several
\* can be bound.  Returns the final n and d and, for every pass that
\* multiplied, the n, d and nmul of that pass.
radsimp(n, d, c, e2, first) ==
    LET radicand == <<1, c, e2, c * e2>>
        mul(u, v) ==
            <<u[1] * v[1] + c * u[2] * v[2] + e2 * u[3] * v[3] + c * e2 * u[4] * v[4],
              u[1] * v[2] + u[2] * v[1] + e2 * (u[3] * v[4] + u[4] * v[3]),
              u[1] * v[3] + u[3] * v[1] + c * (u[2] * v[4] + u[4] * v[2]),
              u[1] * v[4] + u[4] * v[1] + u[2] * v[3] + u[3] * v[2]>>
        sub(u, v) == [k \in 1..4 |-> u[k] - v[k]]
        unit(i) == [k \in 1..4 |-> IF k = i THEN 1 ELSE 0]
        square(q, i) == <<radicand[i] * q * q, 0, 0, 0>>
        RECURSIVE while(_, _, _)
        while(n1, d1, passes) ==
            LET radicals == {k \in 2..4 : d1[k] # 0}
                nterms == Cardinality(radicals)
                args == nterms + (IF d1[1] # 0 THEN 1 ELSE 0)
            IN  IF nterms = 0 THEN [n |-> n1, d |-> d1, passes |-> passes]
                ELSE IF args = 4
                THEN \* r = d.match(a + b*sqrt(c) + D*sqrt(E))
                     \* nmul = va - vb*sqrt(vc) - vd*sqrt(ve)
                     \* d = va**2 - vc*vb**2 - ve*vd**2 - 2*vb*vd*sqrt(vc*ve)
                     LET i == IF first THEN 2 ELSE 3
                         j == i + 1
                         va == [k \in 1..4 |-> IF k \in {i, j} THEN 0 ELSE d1[k]]
                         nmul == [k \in 1..4 |-> IF k \in {i, j} THEN -d1[k] ELSE d1[k]]
                         d2 == sub(sub(sub(mul(va, va), square(d1[i], i)), square(d1[j], j)),
                                   mul(<<2 * d1[i] * d1[j], 0, 0, 0>>, mul(unit(i), unit(j))))
                     IN  while(mul(n1, nmul), d2,
                               Append(passes, [n |-> n1, d |-> d1, nmul |-> nmul]))
                ELSE \* r = d.match(a + b*sqrt(c)), or d.match(b*sqrt(c)) with a = 0:
                     \* nmul = va - vb*sqrt(vc), d = va**2 - vc*vb**2
                     LET i == IF first THEN MinOf(radicals)
                              ELSE CHOOSE k \in radicals : \A l \in radicals : l <= k
                         va == [k \in 1..4 |-> IF k = i THEN 0 ELSE d1[k]]
                         nmul == [k \in 1..4 |-> IF k = i THEN -d1[k] ELSE d1[k]]
                         d2 == sub(mul(va, va), square(d1[i], i))
                     IN  while(mul(n1, nmul), d2,
                               Append(passes, [n |-> n1, d |-> d1, nmul |-> nmul]))
    IN while(n, d, <<>>)

\* simplify(expr, ratio=ratio, measure=measure).  An expression is an Atom or
\* a compound [cls, commutative, name], or a Relational [cls, lhs, rhs]; ratio
\* is the fraction p/q, and 1/0 stands for oo; measure and count_ops give the
\* measure of every Atom and compound; rewrite gives what the rewriting
\* functions return: expr1[x] for powsimp and cancel (factor_terms(together(
\* powsimp(x))) when x is not commutative), expr2[x] for together(expand) on
\* top of it, and last[y] for the steps from trigsimp to the sign extraction
\* applied to the candidate y.
simplify(expr, ratio, measure, count_ops, rewrite) ==
    LET RECURSIVE simp(_, _)
        simp(original_expr, meas) ==
            LET shorter(choices) ==
                    IF Cardinality(Range(choices)) = 1 THEN choices[1]
                    ELSE choices[MinOf({i \in DOMAIN choices :
                                          \A j \in DOMAIN choices : meas[choices[i]] <= meas[choices[j]]})]
                expr1 == rewrite.expr1[original_expr]
                expr2 == rewrite.expr2[original_expr]
                last == rewrite.last[IF ratio.q = 0 THEN expr2
                                     ELSE shorter(<<expr2, expr1, original_expr>>)]
            IN  IF original_expr.cls = "Atom" THEN original_expr
                ELSE IF original_expr.cls = "Relational"
                THEN [cls |-> "Relational",
                      lhs |-> simp(original_expr.lhs, count_ops),
                      rhs |-> simp(original_expr.rhs, count_ops)]
                ELSE IF ~original_expr.commutative
                THEN IF ratio.q = 0 THEN expr1 ELSE shorter(<<expr1, original_expr>>)
                ELSE IF ratio.q # 0 /\ meas[last] * ratio.q > ratio.p * meas[original_expr]
                THEN original_expr
                ELSE last
    IN simp(expr, measure)

\* powsimp(expr, deep, combine, force) for a product expr of powers b**e with
\* different commutative bases.  A base [c, y] is the integer c times y**y for
\* the symbol y of unknown sign; an exponent [x, n] is x*x + n*n for a plain
\* symbol x and an integer symbol n; expr is the set of its factors [b, e].
\* On such a product the 'exp' step finds nothing to add up (no base occurs
\* twice, no base is the inverse of another, no exponent is Rational), and the
\* 'base' step joins the bases that share an exponent.
powsimp(expr, deep, combine, force) ==
    LET RECURSIVE Mul1(_)
        Mul1(bases) ==
            IF bases = {} THEN [c |-> 1, y |-> 0]
            ELSE LET b == CHOOSE b \in bases : TRUE
                     rest == Mul1(bases \ {b})
                 IN  [c |-> b.c * rest.c, y |-> b.y + rest.y]
        RECURSIVE Add1(_)
        Add1(exps) ==
            IF exps = {} THEN [x |-> 0, n |-> 0]
            ELSE LET e1 == CHOOSE e1 \in exps : TRUE
                     rest == Add1(exps \ {e1})
                 IN  [x |-> e1.x + rest.x, n |-> e1.n + rest.n]
        NegativeOne == [c |-> -1, y |-> 0]
        \* c_powers for the exponent e1: the pairs (base, e1) it contributes
        c_powers(e1) ==
            LET bases == {f.b : f \in {g \in expr : g.e = e1}}
                unk == {bi \in bases : bi.y > 0}
                neg == {bi \in bases : bi.y = 0 /\ bi.c < 0}
                nonneg == {bi \in bases : bi.y = 0 /\ bi.c > 0}
                negated == {[w EXCEPT !.c = -w.c] : w \in neg}
            IN  IF Cardinality(bases) = 1 THEN bases
                ELSE IF e1.x = 0 \/ force THEN {Mul1(bases)}
                ELSE IF \/ Cardinality(unk) = 1 /\ neg = {}
                        \/ Cardinality(neg) = 1 /\ unk = {}
                THEN {Mul1(bases)}
                ELSE IF neg # {}
                THEN unk \cup (IF Cardinality(neg) % 2 = 1 THEN {NegativeOne} ELSE {})
                         \cup {[c |-> Mul1(nonneg).c * Mul1(negated).c, y |-> 0]}
                ELSE unk \cup {Mul1(nonneg)}
        pairs == UNION {{[b |-> b, e |-> e1] : b \in c_powers(e1)} : e1 \in {f.e : f \in expr}}
    IN  IF combine = "exp" THEN expr
        ELSE {[b |-> b, e |-> Add1({f.e : f \in {g \in pairs : g.b = b}})] :
                 b \in {f.b : f \in pairs} \ {[c |-> 1, y |-> 0]}}

\* ---- nsimplify ----
\* The multi-precision library (mpmath) is outside the repository: a number x
\* to identify is the record of what the library's searches answer for it,
\*   [nonzero  |-> whether x is non-zero,
\*    findpoly |-> whether findpoly(xv, 1) finds an integer relation,
\*    identify |-> "found", "none" (empty result), "infinite" (a result that
\*                 is not finite) or "error" (identify itself raises)].
\* A call returns [raised, value, dps, calls]: the error raised, a tag for the
\* value returned, mpmath.mp.dps afterwards and the searches made, each with
\* the mp.dps in force when it ran.  A tolerance is [zero |-> whether it is
\* falsy (None or 0), digits |-> d] for the number 10**-d.

\* the body of the try statement of nsimplify_real
nsimplify_try(x, tolerance, full) ==
    LET prec == 30
        fast == ~(~tolerance.zero \/ full)
        findpoly == IF fast THEN <<[fn |-> "findpoly", dps |-> 15]>> ELSE <<>>
        calls == findpoly \o <<[fn |-> "identify", dps |-> prec]>>
    IN  IF fast /\ x.findpoly
        THEN [raised |-> "", value |-> "Rational", dps |-> 15, calls |-> findpoly]
        ELSE CASE x.identify = "found" ->
                    [raised |-> "", value |-> "identified", dps |-> prec, calls |-> calls]
               [] x.identify = "error" ->
                    [raised |-> "ZeroDivisionError", value |-> "", dps |-> prec, calls |-> calls]
               [] OTHER ->
                    [raised |-> "ValueError", value |-> "", dps |-> prec, calls |-> calls]

\* an nsimplify_real that has no finally clause
NsimplifyRealWithoutFinally(x, tolerance, full, orig) == nsimplify_try(x, tolerance, full)

\* nsimplify_real(x), entered with mpmath.mp.dps = orig: try ... finally
nsimplify_real(x, tolerance, full, orig) ==
    [nsimplify_try(x, tolerance, full) EXCEPT !.dps = orig]

\* nsimplify(expr, constants, tolerance, full, rational), entered with
\* mpmath.mp.dps = orig.  expr is [free_symbols, numerical, re, im, atoms,
\* same]: whether it has free symbols, whether its value has a numerical real
\* and imaginary part, these parts, its Float atoms (each [dps, x]) and
\* whether the value found equals expr; constants lists, for every constant,
\* whether it is real-valued.
RECURSIVE nsimplify(_, _, _, _, _, _)
nsimplify(expr, constants, tolerance, full, rational, orig) ==
    LET Zero == [nonzero |-> FALSE, findpoly |-> FALSE, identify |-> "none"]
        \* _real_to_rational(expr): nsimplify(r, rational=False) for every Float
        RECURSIVE real_to_rational(_, _, _)
        real_to_rational(atoms, dps, calls) ==
            IF atoms = <<>>
            THEN [raised |-> "", value |-> "real_to_rational", dps |-> dps, calls |-> calls]
            ELSE LET r == Head(atoms)
                     newr == nsimplify([free_symbols |-> FALSE, numerical |-> TRUE, re |-> r.x,
                                        im |-> Zero, atoms |-> <<r>>, same |-> FALSE],
                                       <<>>, [zero |-> TRUE, digits |-> 0], FALSE, "False", dps)
                 IN  IF newr.raised # "" THEN [newr EXCEPT !.calls = calls \o newr.calls]
                     ELSE real_to_rational(Tail(atoms), newr.dps, calls \o newr.calls)
        tol == IF ~tolerance.zero THEN tolerance
               ELSE [zero |-> FALSE,
                     digits |-> MinOf({15} \cup {expr.atoms[i].dps : i \in DOMAIN expr.atoms})]
        \* if re: re = nsimplify_real(re); if im: im = nsimplify_real(im)
        re == IF expr.re.nonzero THEN nsimplify_real(expr.re, tol, full, orig)
              ELSE [raised |-> "", value |-> "", dps |-> orig, calls |-> <<>>]
        im == IF re.raised = "" /\ expr.im.nonzero
              THEN LET out == nsimplify_real(expr.im, tol, full, re.dps)
                   IN  [out EXCEPT !.calls = re.calls \o out.calls]
              ELSE re
    IN  IF rational = "True" \/ expr.free_symbols
        THEN real_to_rational(expr.atoms, orig, <<>>)
        ELSE IF \E i \in DOMAIN constants : ~constants[i]
        THEN [raised |-> "ValueError", value |-> "", dps |-> orig, calls |-> <<>>]
        ELSE IF ~expr.numerical
        THEN [raised |-> "", value |-> "expr", dps |-> orig, calls |-> <<>>]
        ELSE IF im.raised = "ValueError"
        THEN IF rational = "None" THEN real_to_rational(expr.atoms, im.dps, im.calls)
             ELSE [raised |-> "", value |-> "expr", dps |-> im.dps, calls |-> im.calls]
        ELSE IF im.raised # "" THEN im
        ELSE IF ~expr.same \/ rational = "False"
        THEN [raised |-> "", value |-> "rv", dps |-> im.dps, calls |-> im.calls]
        ELSE real_to_rational(expr.atoms, im.dps, im.calls)

\* ---- combsimp: the rising factorial rf and the rewrites to it ----
\* A value is an exact rational <<numerator, denominator>> in lowest terms;
\* <<1, 0>> is zoo (1/0) and <<0, 0>> is nan (0*zoo).

\* rf.eval(a, b) for integers a and b
rf(a, b) ==
    LET RECURSIVE loop(_, _, _)
        \* result *= a + step*i for i = i, ..., last
        loop(i, last, step) == IF i > last THEN 1 ELSE (a + step * i) * loop(i + 1, last, step)
    IN  IF b = 0 THEN <<0, 1>>
        ELSE IF b > 0 THEN <<loop(0, b - 1, 1), 1>>
        ELSE LET result == loop(1, -b, -1) IN
             IF result = 0 THEN <<1, 0>>
             ELSE IF result < 0 THEN <<-1, -result>> ELSE <<1, result>>

\* combsimp(fn(n, k)) for fn one of factorial, gamma (of n) and binomial, whose
\* arguments expand to the integers n and k: the value the rewrite to rf gives
combsimp(fn, n, k) ==
    LET RECURSIVE igcd(_, _)
        igcd(a, b) == IF b = 0 THEN a ELSE igcd(b, a % b)
        \* p * q**(-1)
        Div(p, q) ==
            LET inv == IF q[1] < 0 THEN <<-q[2], -q[1]>> ELSE <<q[2], q[1]>>
                num == p[1] * inv[1]
                den == p[2] * inv[2]
                g == igcd(Abs(num), den)
            IN  IF g = 0 THEN <<0, 0>> ELSE <<num \div g, den \div g>>
    IN  CASE fn = "binomial" -> Div(rf(n - k + 1, k), rf(1, k))
          [] fn = "factorial" -> rf(1, n)
          [] OTHER -> rf(1, n - 1)

\* ---- exponential.py: the Taylor terms of exp and log(1 + x) ----
\* cls.taylor_term(n, x, *previous_terms) for cls one of exp, log and a symbol
\* x.  A term is the monomial c * x**k, [c |-> <<numerator, denominator>>,
\* k |-> k]; previous_terms is a tuple of terms, with NoTerm for None.
\* C is the class registry: it knows a class under the name the class has.
NoTerm == [c |-> <<0, 1>>, k |-> -1]

taylor_term(cls, n, previous_terms) ==
    LET ClassRegistry == {"Abs", "CombinatorialFunction", "Dummy", "Float", "Integral", "Mul",
                          "Order", "Relational", "Symbol", "TrigonometricFunction", "arg",
                          "binomial", "cos", "cot", "exp", "factorial", "gamma", "log", "sin", "tan"}
        Zero == [c |-> <<0, 1>>, k |-> 0]
        Returns(t) == [raised |-> "", value |-> IF t.c[1] = 0 THEN Zero ELSE t]
        \* p * x * (a/b)
        TimesX(p, a, b) == [c |-> RationalOp("*", p.c, <<a, b>>), k |-> p.k + 1]
        RECURSIVE Factorial(_)
        Factorial(m) == IF m = 0 THEN 1 ELSE m * Factorial(m - 1)
        p == previous_terms[Len(previous_terms)]
    IN  IF cls = "exp"
        THEN IF n < 0 THEN Returns(Zero)
             ELSE IF n = 0 THEN Returns([c |-> <<1, 1>>, k |-> 0])
             ELSE IF previous_terms # <<>> /\ p # NoTerm THEN Returns(TimesX(p, 1, n))
             ELSE IF "Factorial" \in ClassRegistry
                  THEN Returns([c |-> <<1, Factorial(n)>>, k |-> n])
                  ELSE [raised |-> "AttributeError", value |-> NoTerm]
        ELSE IF n < 0 THEN Returns(Zero)
             ELSE IF n = 0 THEN Returns([c |-> <<1, 1>>, k |-> 1])
             ELSE IF previous_terms # <<>> /\ p # NoTerm
                  THEN LET t == TimesX(p, -n, n + 1)
                           x_power == [b |-> [c |-> 1, y |-> 1], e |-> [x |-> 0, n |-> t.k]]
                           combined == powsimp({x_power}, TRUE, "exp", FALSE)
                       IN  Returns([t EXCEPT !.k = (CHOOSE f \in combined : TRUE).e.n])
                  ELSE Returns([c |-> RationalOp("*", <<1 - 2 * (n % 2), 1>>, <<1, n + 1>>),
                                k |-> n + 1])


\* =====================================================================
\* Calls of library functions
\* =====================================================================
\* One call per behaviour: fn(*args) is called and returns value.  The random expressions are s*X + t*Y + c over two
\* random symbols X and Y with values 1..MaxSides, each with its own
\* density, so that the joint density is the product of the two.  collect is
\* called on sums of two to MaxTerms terms with different monomials and on
\* one or two of the patterns x, y, x*y, 2, 2*x, w and w excluding x.
\* separatevars(..., dict=True) is called on products of one to MaxFactors
\* factors with at most two free symbols each, and on None or a list of up to
\* two of x, y, z and the product x*y.  radsimp is called on
\* 1/(a + b*sqrt(c) + d*sqrt(e)) with a, b and d integers up to MaxCoef in
\* absolute value, not all 0, and c, e two of 2, 3 and 5.  simplify is called
\* with ratio 1/2, 1, 1.7 or oo on the Atom x, on the compounds p and q, on
\* the non-commutative p and on every relational between x, p and q, for
\* every measure with values up to MaxMeasure and every result in {p, q} of
\* the rewriting functions.  powsimp is called on products of one to
\* MaxPowers powers of different bases among -5, -3, -2, 2, 3 and y, each to
\* the exponent x or n.
NextLib ==
    /\ libCall.fn = "none"
    /\ LET Outcome(fn, args, ret) ==
               /\ libCall' = [fn |-> fn, args |-> args]
               /\ libRet' = ret
               /\ UNCHANGED <<predVars, ctxVars, relVars, cgVars, simpVars, elVars>>
           Call(fn, args, value) == Outcome(fn, args, [raised |-> "", value |-> value])
           Factors == {fs \in SUBSET {"x", "y", "z"} : Cardinality(fs) <= 2}
           SymbolLists == UNION {[1..n -> {"x", "y", "z", "x*y"}] : n \in 0..2}
           Sides == 1..MaxSides
           Omega == Sides \X Sides
           RandomExprs ==
               {[pspace |-> [symbols |-> {v \in {"X", "Y"} :
                                             (v = "X" /\ st[1] # 0) \/ (v = "Y" /\ st[2] # 0)},
                             density |-> [w \in Omega |-> px[w[1]] * py[w[2]]]],
                 at |-> [w \in Omega |-> <<st[1] * w[1] + st[2] * w[2] + c, 1>>]] :
                   px \in [Sides -> 1..2], py \in [Sides -> 1..2],
                   st \in ((-1..1) \X (-1..1)) \ {<<0, 0>>}, c \in 0..1}
           Expr(commutative, name) == [cls |-> "Expr", commutative |-> commutative, name |-> name]
           Compound == {Expr(TRUE, "p"), Expr(TRUE, "q")}
           Commutative == Compound \cup {[cls |-> "Atom", commutative |-> TRUE, name |-> "x"]}
           NonCommutative(x) == [x EXCEPT !.commutative = FALSE]
           Rewrite(expr1, expr2, last) ==
               [expr1 |-> [x \in Commutative \cup {NonCommutative(y) : y \in Compound} |->
                             IF x \in Compound THEN expr1[x]
                             ELSE IF x.cls = "Atom" THEN x
                             ELSE NonCommutative(expr1[[x EXCEPT !.commutative = TRUE]])],
                expr2 |-> [x \in Commutative |-> IF x \in Compound THEN expr2[x] ELSE x],
                last |-> [x \in Commutative |-> IF x \in Compound THEN last[x] ELSE x]]
           Measures == 0..MaxMeasure
           MeasureOf(ab) ==
               [x \in Commutative \cup {NonCommutative(y) : y \in Compound} |->
                   IF x.cls = "Atom" THEN 0 ELSE IF x.name = "p" THEN ab[1] ELSE ab[2]]
           Ratios == {[p |-> 1, q |-> 2], [p |-> 1, q |-> 1], [p |-> 17, q |-> 10], [p |-> 1, q |-> 0]}
           Bases == {[c |-> c, y |-> 0] : c \in {-5, -3, -2, 2, 3}} \cup {[c |-> 1, y |-> 1]}
           Powers == {expr \in SUBSET [b : Bases, e : {[x |-> 1, n |-> 0], [x |-> 0, n |-> 1]}] :
                         /\ Cardinality(expr) \in 1..MaxPowers
                         /\ \A f \in expr, g \in expr : f.b = g.b => f = g}
           Products == [c : 1..2, x : 0..2, y : 0..1]
           ExpandedSums == {expr \in SUBSET Products :
                       /\ Cardinality(expr) \in 2..MaxTerms
                       /\ \A s \in expr, t \in expr : s.x = t.x /\ s.y = t.y => s = t}
           Terms == {[c |-> <<a, b>>, k |-> k] :
                        a \in {-1, 1}, b \in (1..MaxOrder) \cup {6}, k \in 0..MaxOrder}
           Searched == {[nonzero |-> FALSE, findpoly |-> FALSE, identify |-> "none"]}
                          \cup [nonzero : {TRUE}, findpoly : BOOLEAN,
                                 identify : {"found", "none", "infinite", "error"}]
           PatSymbol(name) == [kind |-> "sym", name |-> name, exclude |-> {}]
           PatNumber == [kind |-> "num", name |-> "", exclude |-> {}]
           PatWild(exclude) == [kind |-> "wild", name |-> "w", exclude |-> exclude]
           Patterns == {<<PatSymbol("x")>>, <<PatSymbol("y")>>, <<PatSymbol("x"), PatSymbol("y")>>,
                        <<PatNumber>>, <<PatNumber, PatSymbol("x")>>, <<PatWild({})>>, <<PatWild({"x"})>>}
       IN \/ \E a \in RandomExprs :
               \E b \in {y \in RandomExprs : y.pspace.density = a.pspace.density} :
                   \/ Call("dependent", <<a, b>>, dependent(a, b))
                   \/ Call("independent", <<a, b>>, independent(a, b))
                   \/ Call("covariance", <<a, b>>, covariance(a, b))
          \/ \E X \in RandomExprs : Call("variance", <<X>>, variance(X))
          \/ \E n \in 1..MaxFactors : \E expr \in [1..n -> Factors] :
                 \E symbols \in {[none |-> TRUE, list |-> <<>>]}
                                  \cup {[none |-> FALSE, list |-> l] : l \in SymbolLists} :
                     Outcome("separatevars", <<expr, symbols>>, separatevars_dict(expr, symbols))
          \/ \E q \in [1..3 -> (-MaxCoef)..MaxCoef] \ {<<0, 0, 0>>} :
                 \E ce \in {<<2, 3>>, <<2, 5>>, <<3, 5>>}, first \in BOOLEAN :
                     LET d == <<q[1], q[2], q[3], 0>> IN
                     Call("radsimp", <<<<1, 0, 0, 0>>, d, ce[1], ce[2], first>>,
                          radsimp(<<1, 0, 0, 0>>, d, ce[1], ce[2], first))
          \/ \E ratio \in Ratios, ab \in Measures \X Measures, cd \in Measures \X Measures :
                 LET measure == MeasureOf(ab)
                     count_ops == MeasureOf(cd)
                 IN  \/ \E lhs \in Commutative, rhs \in Commutative, expr1 \in [Compound -> Compound] :
                            LET rel == [cls |-> "Relational", lhs |-> lhs, rhs |-> rhs]
                                rewrite == Rewrite(expr1, expr1, [y \in Compound |-> y])
                            IN  Call("simplify", <<rel, ratio, measure, count_ops, rewrite>>,
                                     simplify(rel, ratio, measure, count_ops, rewrite))
                     \/ /\ cd = ab
                        /\ \E expr \in Commutative \cup {Expr(FALSE, "p")} :
                            \E expr1 \in [Compound -> Compound], expr2 \in Compound, last \in [Compound -> Compound] :
                               LET rewrite == Rewrite(expr1, [expr1 EXCEPT ![Expr(TRUE, "p")] = expr2], last)
                               IN  Call("simplify", <<expr, ratio, measure, count_ops, rewrite>>,
                                        simplify(expr, ratio, measure, count_ops, rewrite))
          \/ \E expr \in Powers, deep \in BOOLEAN, combine \in {"all", "exp", "base"}, force \in BOOLEAN :
                 Call("powsimp", <<expr, deep, combine, force>>, powsimp(expr, deep, combine, force))
          \/ \E re \in Searched, im \in Searched : \E atoms \in {<<>>} \cup {<<[dps |-> d, x |-> re]>> : d \in {6, 15}} :
                 \E fn \in [free_symbols : BOOLEAN, numerical : BOOLEAN, same : BOOLEAN, full : BOOLEAN],
                    constants \in {<<>>, <<TRUE>>, <<TRUE, FALSE>>},
                    tolerance \in {[zero |-> TRUE, digits |-> 0], [zero |-> FALSE, digits |-> 2]},
                    rational \in {"None", "True", "False"}, orig \in {15, 50} :
                     LET expr == [free_symbols |-> fn.free_symbols, numerical |-> fn.numerical,
                                  re |-> re, im |-> im, atoms |-> atoms, same |-> fn.same]
                     IN  Outcome("nsimplify", <<expr, constants, tolerance, fn.full, rational, orig>>,
                                 nsimplify(expr, constants, tolerance, fn.full, rational, orig))
          \/ \E a \in (-MaxRf)..MaxRf, b \in (-MaxRf)..MaxRf : Call("rf", <<a, b>>, rf(a, b))
          \/ \E n \in 0..MaxRf, k \in 0..MaxRf :
                 \/ /\ k <= n
                    /\ Call("combsimp", <<"binomial", n, k>>, combsimp("binomial", n, k))
                 \/ /\ k = 0
                    /\ \/ Call("combsimp", <<"factorial", n, k>>, combsimp("factorial", n, k))
                       \/ /\ n >= 1
                          /\ Call("combsimp", <<"gamma", n, k>>, combsimp("gamma", n, k))
          \/ \E cls \in {"exp", "log"}, n \in (-1)..MaxOrder :
                 \E previous_terms \in {<<>>, <<NoTerm>>} \cup {<<t>> : t \in Terms}
                                          \cup {<<t, NoTerm>> : t \in Terms}
                                          \cup {<<NoTerm, t>> : t \in Terms} :
                     Outcome("taylor_term", <<cls, n, previous_terms>>,
                             taylor_term(cls, n, previous_terms))
          \/ \E expr \in ExpandedSums, n \in 1..2 : \E syms \in [1..n -> Patterns], evaluate \in BOOLEAN :
                 Call("collect", <<expr, syms, evaluate>>, collect(expr, syms, evaluate))

\* =====================================================================
\* Specifications
\* =====================================================================
Init == InitPred /\ InitCtx /\ InitRel /\ InitCG /\ InitSimp /\ InitExpLog /\ InitLib

SpecPred == Init /\ [][NextPred]_vars
SpecCtx == Init /\ [][NextCtx]_vars
SpecRel == Init /\ [][NextRel]_vars
SpecCG == Init /\ [][NextCG]_vars
SpecSimp == Init /\ [][NextSimp]_vars
SpecExpLog == Init /\ [][NextExpLog]_vars
SpecLib == Init /\ [][NextLib]_vars

\* =====================================================================
\* Properties of the statistics layer
\* =====================================================================
\* C15: independent(a, b) is the negation of dependent(a, b); dependent(a, b)
\* is true exactly when the symbol sets of the two probability spaces meet;
\* and dependent is symmetric.
C15_DependentIndependent ==
    libCall.fn \in {"dependent", "independent"} =>
        LET a == libCall.args[1]
            b == libCall.args[2]
            meet == a.pspace.symbols \cap b.pspace.symbols
        IN /\ independent(a, b) = ~dependent(a, b)
           /\ dependent(a, b) = (meet # {})
           /\ dependent(a, b) = dependent(b, a)
           /\ libRet.raised = ""
           /\ libRet.value = IF libCall.fn = "dependent" THEN meet # {} ELSE meet = {}

\* dependent(a, b) was called on two expressions over different symbols,
\* both with a non-empty symbol set
C15_Witness ==
    /\ libCall.fn = "dependent"
    /\ libCall.args[1].pspace.symbols = {"X"}
    /\ libCall.args[2].pspace.symbols = {"Y"}
    /\ libRet.value = FALSE

\* 2*X
TwoTimes(X) == [X EXCEPT !.at = [w \in DOMAIN X.at |-> RationalOp("*", <<2, 1>>, X.at[w])]]

\* the mean squared deviation of X, summed outcome by outcome
MeanSquaredDeviation(X) ==
    E([X EXCEPT !.at = [w \in DOMAIN X.at |->
          LET dev == RationalOp("-", X.at[w], E(X)) IN RationalOp("*", dev, dev)]])

\* C18: variance(X) is E(X**2) - E(X)**2, variance(2*X) is 4*variance(X),
\* and covariance(X, Y) is 0 for independent X and Y.
C18_VarianceCovariance ==
    /\ libCall.fn = "variance" =>
          LET X == libCall.args[1] IN
          /\ libRet.value = MeanSquaredDeviation(X)
          /\ variance(TwoTimes(X)) = RationalOp("*", <<4, 1>>, libRet.value)
    /\ libCall.fn = "covariance" /\ independent(libCall.args[1], libCall.args[2]) =>
          libRet.value = <<0, 1>>

\* covariance was called on independent expressions that both vary
C18_Witness ==
    /\ libCall.fn = "covariance"
    /\ independent(libCall.args[1], libCall.args[2])
    /\ variance(libCall.args[1]) # <<0, 1>>
    /\ variance(libCall.args[2]) # <<0, 1>>

\* =====================================================================
\* Properties of collect
\* =====================================================================
\* the dictionary behind a value returned by collect
CollectedOf(value, evaluate) ==
    IF evaluate
    THEN [key \in {kv[1] : kv \in value} |-> (CHOOSE kv \in value : kv[1] = key)[2]]
    ELSE value

\* the entries of a dictionary: a key and a position in its value
Entries(d) == UNION {{<<key, i>> : i \in DOMAIN d[key]} : key \in DOMAIN d}

\* key * value[i]
EntryProduct(d, en) ==
    LET key == en[1]
        val == d[en[1]][en[2]]
    IN [c |-> key.c * val.c, x |-> key.x + val.x, y |-> key.y + val.y]

\* the key a term gets when it is collected on its own
KeyOf(t, syms) == CHOOSE key \in DOMAIN collect({t}, syms, FALSE) : TRUE

\* the entries of d whose product is the term t
EntriesOf(d, t) == {en \in Entries(d) : EntryProduct(d, en) = t}

\* C12 as stated: every term of the input is under exactly one key, the key
\* of the first pattern that matches it or 1, and the products key * value
\* add up to the input.
C12_Original ==
    libCall.fn = "collect" =>
        LET expr == libCall.args[1]
            syms == libCall.args[2]
            d == CollectedOf(libRet.value, libCall.args[3])
        IN /\ \A t \in expr :
                /\ Cardinality(EntriesOf(d, t)) = 1
                /\ \A en \in EntriesOf(d, t) : en[1] = KeyOf(t, syms)
           /\ \A en \in Entries(d) : EntryProduct(d, en) \in expr

\* C12, what collect does: nothing is invented or counted twice, and a term
\* whose key is not 1 is under that key; a term whose key is 1 can be missing,
\* and then the unit key holds other terms of the input; without a Wild in
\* the patterns no term is missing.
C12_CollectOutcome ==
    libCall.fn = "collect" =>
        LET expr == libCall.args[1]
            syms == libCall.args[2]
            d == CollectedOf(libRet.value, libCall.args[3])
        IN /\ \A en \in Entries(d) : EntryProduct(d, en) \in expr
           /\ \A t \in expr :
                /\ Cardinality(EntriesOf(d, t)) <= 1
                /\ \A en \in EntriesOf(d, t) : en[1] = KeyOf(t, syms)
                /\ EntriesOf(d, t) = {} =>
                      /\ KeyOf(t, syms) = One
                      /\ One \in DOMAIN d
                      /\ \E j \in DOMAIN syms : \E i \in DOMAIN syms[j] : syms[j][i].kind = "wild"

\* collect(1 + x, w) with w = Wild('w', exclude=[x]) returned {1: x}
C12_Witness ==
    /\ libCall.fn = "collect"
    /\ libCall.args[1] = {One, [One EXCEPT !.x = 1]}
    /\ Len(libCall.args[2]) = 1
    /\ libCall.args[2][1][1].kind = "wild"
    /\ libCall.args[2][1][1].exclude = {"x"}
    /\ ~libCall.args[3]
    /\ libRet.value = [key \in {One} |-> <<[One EXCEPT !.x = 1]>>]

\* =====================================================================
\* Properties of separatevars
\* =====================================================================
\* the outcome of separatevars(expr, symbols, dict=True) when the symbols
\* asked for are `requested`
SeparatedFor(requested) ==
    LET expr == libCall.args[1]
        ret == libRet.value.ret
    IN  /\ libRet.raised = ""
        /\ IF \/ \E i \in DOMAIN expr : Cardinality(requested \cap expr[i]) > 1
              \/ libCall.args[2].list = <<>> /\ UNION Range(expr) = {}
           THEN libRet.value.none
           ELSE /\ ~libRet.value.none
                /\ DOMAIN ret = requested \cup {"coeff"}
                /\ \A i \in DOMAIN expr :
                      \A k \in DOMAIN ret :
                          i \in ret[k] <=> IF requested \cap expr[i] = {} THEN k = "coeff"
                                           ELSE requested \cap expr[i] = {k}
                /\ \A k \in requested : (\A i \in DOMAIN expr : k \notin expr[i]) => ret[k] = {}
                /\ UNION {ret[k] : k \in DOMAIN ret} = DOMAIN expr

\* symbols=None returns {'coeff': expr}
SeparatedForNone ==
    /\ libRet.raised = ""
    /\ ~libRet.value.none
    /\ libRet.value.ret = [k \in {"coeff"} |-> DOMAIN libCall.args[1]]

\* C17 as stated: the requested symbols are those of the symbols argument
C17_Original ==
    libCall.fn = "separatevars" =>
        IF libCall.args[2].none THEN SeparatedForNone
        ELSE SeparatedFor(Range(libCall.args[2].list))

\* C17: with an empty symbols the requested symbols are the free symbols of
\* the expression, and a symbols holding a non-Atom raises AssertionError.
C17_SeparatedAmended ==
    libCall.fn = "separatevars" =>
        LET symbols == libCall.args[2] IN
        IF symbols.none THEN SeparatedForNone
        ELSE IF symbols.list = <<>> THEN SeparatedFor(UNION Range(libCall.args[1]))
        ELSE IF Range(symbols.list) \subseteq {"x", "y", "z"} THEN SeparatedFor(Range(symbols.list))
        ELSE libRet.raised = "AssertionError"

\* separatevars(expr, symbols=[], dict=True) on a two-factor expr with free
\* symbols returned a dictionary keyed by them
C17_Witness ==
    /\ libCall.fn = "separatevars"
    /\ ~libCall.args[2].none
    /\ libCall.args[2].list = <<>>
    /\ Len(libCall.args[1]) = 2
    /\ ~libRet.value.none
    /\ DOMAIN libRet.value.ret = {"x", "y", "coeff"}
    /\ libRet.value.ret["coeff"] = {}

\* =====================================================================
\* Properties of radsimp
\* =====================================================================
\* the product of two numbers of the field Q(sqrt(c), sqrt(e))
FieldProduct(u, v, c, e2) ==
    <<u[1] * v[1] + c * u[2] * v[2] + e2 * u[3] * v[3] + c * e2 * u[4] * v[4],
      u[1] * v[2] + u[2] * v[1] + e2 * u[3] * v[4] + e2 * u[4] * v[3],
      u[1] * v[3] + u[3] * v[1] + c * u[2] * v[4] + c * u[4] * v[2],
      u[1] * v[4] + u[4] * v[1] + u[2] * v[3] + u[3] * v[2]>>

\* C16: for a denominator a + b*sqrt(c) + d*sqrt(e) the loop ends with a
\* denominator without radical, and every pass multiplies the numerator and
\* the denominator by the same multiplier.
C16_RadicalFreeDenominator ==
    libCall.fn = "radsimp" =>
        LET c == libCall.args[3]
            e2 == libCall.args[4]
            passes == libRet.value.passes
            after(k) == IF k = Len(passes) THEN libRet.value ELSE passes[k + 1]
        IN  /\ libRet.value.d[2] = 0 /\ libRet.value.d[3] = 0 /\ libRet.value.d[4] = 0
            /\ libRet.value.d[1] # 0
            /\ Len(passes) <= 2
            /\ passes = <<>> => libRet.value.n = libCall.args[1] /\ libRet.value.d = libCall.args[2]
            /\ passes # <<>> => passes[1].n = libCall.args[1] /\ passes[1].d = libCall.args[2]
            /\ \A k \in DOMAIN passes :
                  /\ after(k).n = FieldProduct(passes[k].n, passes[k].nmul, c, e2)
                  /\ after(k).d = FieldProduct(passes[k].d, passes[k].nmul, c, e2)
            /\ libCall.args[2] = <<2, 1, 0, 0>> /\ c = 2 =>
                  libRet.value.n = <<2, -1, 0, 0>> /\ libRet.value.d = <<2, 0, 0, 0>>

\* radsimp was called on a denominator with a constant and two radicals and
\* needed two passes
C16_Witness ==
    /\ libCall.fn = "radsimp"
    /\ \A k \in 1..3 : libCall.args[2][k] # 0
    /\ Len(libRet.value.passes) = 2

\* =====================================================================
\* Properties of simplify
\* =====================================================================
\* the measure of x under meas; that of a Relational is the sum over its sides
MeasureUnder(meas, x) ==
    IF x.cls = "Relational" THEN meas[x.lhs] + meas[x.rhs] ELSE meas[x]

\* x is y or has a measure of at most ratio times that of y
WithinRatio(x, y, ratio, meas) ==
    \/ x = y
    \/ MeasureUnder(meas, x) * ratio.q <= ratio.p * MeasureUnder(meas, y)

\* C13 as stated: with a finite ratio the returned value is within the ratio
\* of the input or is the input.
C13_Original ==
    libCall.fn = "simplify" /\ libCall.args[2].q # 0 =>
        WithinRatio(libRet.value, libCall.args[1], libCall.args[2], libCall.args[3])

\* C13, what simplify does: the ratio test is applied to commutative
\* expressions; a non-commutative expression gets the candidate whenever its
\* measure is not above that of the input; each side of a Relational is
\* simplified on its own, with count_ops as the measure.
C13_SimplifyOutcome ==
    libCall.fn = "simplify" /\ libCall.args[2].q # 0 =>
        LET expr == libCall.args[1]
            ratio == libCall.args[2]
            measure == libCall.args[3]
            count_ops == libCall.args[4]
            value == libRet.value
        IN  CASE expr.cls = "Relational" ->
                   /\ value.cls = "Relational"
                   /\ WithinRatio(value.lhs, expr.lhs, ratio, count_ops)
                   /\ WithinRatio(value.rhs, expr.rhs, ratio, count_ops)
              [] expr.cls = "Expr" /\ ~expr.commutative ->
                   WithinRatio(value, expr, [p |-> 1, q |-> 1], measure)
              [] OTHER -> WithinRatio(value, expr, ratio, measure)

\* simplify(expr, ratio=1/2) returned, for a non-commutative expr of measure
\* 2, another expression of measure 2
C13_Witness ==
    /\ libCall.fn = "simplify"
    /\ libCall.args[1].cls = "Expr"
    /\ ~libCall.args[1].commutative
    /\ libCall.args[2] = [p |-> 1, q |-> 2]
    /\ libRet.value # libCall.args[1]
    /\ libCall.args[3][libRet.value] = 2
    /\ libCall.args[3][libCall.args[1]] = 2

\* =====================================================================
\* Properties of powsimp
\* =====================================================================
\* C14 as stated: powsimp applied to its own result returns that result.
C14_Original ==
    libCall.fn = "powsimp" =>
        powsimp(libRet.value, libCall.args[2], libCall.args[3], libCall.args[4]) = libRet.value

\* the bases of expr with the plain symbol x as exponent that are known to
\* be negative, and those whose sign is not known
NegativeBases(expr) == {f.b : f \in {g \in expr : g.e.x = 1 /\ g.b.y = 0 /\ g.b.c < 0}}
UnknownBases(expr) == {f.b : f \in {g \in expr : g.e.x = 1 /\ g.b.y > 0}}

\* C14, what powsimp does: a second application changes the result exactly
\* when, without force and with combine 'all' or 'base', two or more negative
\* bases share a non-integer exponent and either their number is odd and no
\* base of unknown sign shares it, or their number is even and one does.
C14_PowsimpOutcome ==
    libCall.fn = "powsimp" =>
        LET expr == libCall.args[1]
            again == powsimp(libRet.value, libCall.args[2], libCall.args[3], libCall.args[4])
        IN  again # libRet.value <=>
               /\ ~libCall.args[4]
               /\ libCall.args[3] # "exp"
               /\ Cardinality(NegativeBases(expr)) >= 2
               /\ (Cardinality(NegativeBases(expr)) % 2 = 1) # (UnknownBases(expr) # {})

\* powsimp((-2)**x*(-3)**x*(-5)**x) returned (-1)**x*30**x
C14_Witness ==
    /\ libCall.fn = "powsimp"
    /\ ~libCall.args[4]
    /\ libCall.args[3] = "all"
    /\ {f.b.c : f \in libCall.args[1]} = {-2, -3, -5}
    /\ \A f \in libCall.args[1] : f.e = [x |-> 1, n |-> 0]
    /\ libRet.value = {[b |-> [c |-> -1, y |-> 0], e |-> [x |-> 1, n |-> 0]],
                       [b |-> [c |-> 30, y |-> 0], e |-> [x |-> 1, n |-> 0]]}
    /\ powsimp(libRet.value, libCall.args[2], "all", FALSE)
          = {[b |-> [c |-> -30, y |-> 0], e |-> [x |-> 1, n |-> 0]]}

\* =====================================================================
\* Properties of nsimplify
\* =====================================================================
\* the call was nsimplify(expr) for a purely numeric expr, with tolerance=None
\* and full=False, and it came to search for its real or imaginary part
NumericDefaultSearch ==
    /\ libCall.fn = "nsimplify"
    /\ ~libCall.args[1].free_symbols /\ libCall.args[1].numerical
    /\ libCall.args[5] # "True"
    /\ \A i \in DOMAIN libCall.args[2] : libCall.args[2][i]
    /\ libCall.args[3].zero /\ ~libCall.args[4]
    /\ libCall.args[1].re.nonzero \/ libCall.args[1].im.nonzero

\* C23 as stated: with tolerance=None and full=False the search for a part
\* starts with findpoly at 15 digits, and identify runs only after a findpoly
\* that found nothing.
C23_Original ==
    NumericDefaultSearch =>
        LET calls == libRet.calls IN
        /\ calls[1] = [fn |-> "findpoly", dps |-> 15]
        /\ \A i \in DOMAIN calls :
              calls[i].fn = "identify" => (i > 1 /\ calls[i - 1].fn = "findpoly")

\* C23, what nsimplify does: findpoly is never attempted; every search is an
\* identify at 30 digits, also for a number findpoly would have resolved.
C23_SearchOutcome ==
    NumericDefaultSearch =>
        /\ libRet.calls # <<>>
        /\ \A i \in DOMAIN libRet.calls : libRet.calls[i] = [fn |-> "identify", dps |-> 30]

\* a real number that findpoly resolves was handed to identify only
C23_Witness ==
    /\ NumericDefaultSearch
    /\ libCall.args[1].re.findpoly /\ ~libCall.args[1].im.nonzero
    /\ libCall.args[1].re.identify = "found"
    /\ libRet.calls = <<[fn |-> "identify", dps |-> 30]>>
    /\ libRet.value = "rv"

\* C29: nsimplify leaves mpmath.mp.dps as it found it on every exit path:
\* an identification, a failed identification that falls back to the
\* float-to-rational conversion or returns the input, an error raised by a
\* constant or by the search, and an input returned unchanged.
C29_PrecisionRestored ==
    libCall.fn = "nsimplify" => libRet.dps = libCall.args[6]

\* entered with mp.dps = 50, a search ran at 30 digits, the identification
\* of the imaginary part failed and nsimplify fell back to the conversion
C29_Witness ==
    /\ libCall.fn = "nsimplify"
    /\ libCall.args[6] = 50
    /\ libCall.args[1].re.nonzero /\ libCall.args[1].im.identify = "infinite"
    /\ Len(libRet.calls) >= 2
    /\ \A i \in DOMAIN libRet.calls : libRet.calls[i].dps = 30
    /\ libRet.value = "real_to_rational"
    /\ libRet.dps = 50

\* =====================================================================
\* Properties of combsimp
\* =====================================================================
\* a*(a+1)*...*(a+b-1), the empty product for b = 0
RisingProduct(a, b) ==
    LET RECURSIVE upto(_)
        upto(m) == IF m = 0 THEN 1 ELSE upto(m - 1) * (a + m - 1)
    IN upto(b)

\* the reciprocal 1/x of a non-zero integer
Reciprocal(x) == IF x < 0 THEN <<-1, -x>> ELSE <<1, x>>

\* n! and the binomial coefficient, by Pascal's rule
IntFactorial(n) == RisingProduct(1, n)

BinomialCoefficient(n, k) ==
    LET RECURSIVE pascal(_, _)
        pascal(m, j) == IF j = 0 \/ j = m THEN 1 ELSE pascal(m - 1, j - 1) + pascal(m - 1, j)
    IN pascal(n, k)

\* C21 as stated: rf(a, b) is a*(a+1)*...*(a+b-1) for b >= 0, b = 0 included,
\* and 1/((a-1)*(a-2)*...*(a+b)) for b < 0; the rewrites of factorial(n),
\* gamma(n) and binomial(n, k) to rf keep the value for 0 <= k <= n.
C21_Original ==
    /\ libCall.fn = "rf" =>
          LET a == libCall.args[1]
              b == libCall.args[2]
          IN  /\ b >= 0 => libRet.value = <<RisingProduct(a, b), 1>>
              /\ (b < 0 /\ RisingProduct(a + b, -b) # 0) =>
                    libRet.value = Reciprocal(RisingProduct(a + b, -b))
    /\ libCall.fn = "combsimp" =>
          LET n == libCall.args[2]
              k == libCall.args[3]
          IN  libRet.value = CASE libCall.args[1] = "factorial" -> <<IntFactorial(n), 1>>
                               [] libCall.args[1] = "gamma" -> <<IntFactorial(n - 1), 1>>
                               [] OTHER -> <<BinomialCoefficient(n, k), 1>>

\* C21, what the code does: as stated for b # 0; rf(a, 0) is 0, so that the
\* rewrites give 0 for factorial(0) and gamma(1) and nan for binomial(n, 0).
C21_RfOutcome ==
    /\ libCall.fn = "rf" =>
          LET a == libCall.args[1]
              b == libCall.args[2]
          IN  /\ b > 0 => libRet.value = <<RisingProduct(a, b), 1>>
              /\ b = 0 => libRet.value = <<0, 1>>
              /\ (b < 0 /\ RisingProduct(a + b, -b) # 0) =>
                    libRet.value = Reciprocal(RisingProduct(a + b, -b))
              /\ (b < 0 /\ RisingProduct(a + b, -b) = 0) => libRet.value = <<1, 0>>
    /\ libCall.fn = "combsimp" =>
          LET n == libCall.args[2]
              k == libCall.args[3]
          IN  libRet.value =
                 CASE libCall.args[1] = "factorial" -> IF n = 0 THEN <<0, 1>> ELSE <<IntFactorial(n), 1>>
                   [] libCall.args[1] = "gamma" -> IF n = 1 THEN <<0, 1>> ELSE <<IntFactorial(n - 1), 1>>
                   [] OTHER -> IF k = 0 THEN <<0, 0>> ELSE <<BinomialCoefficient(n, k), 1>>

\* the rewrite of binomial(2, 0) has given nan
C21_Witness ==
    /\ libCall.fn = "combsimp"
    /\ libCall.args = <<"binomial", 2, 0>>
    /\ libRet.value = <<0, 0>>

\* =====================================================================
\* Properties of taylor_term
\* =====================================================================
\* the closed forms: x**n/n! for exp and (1-2*(n mod 2))*x**(n+1)/(n+1) for
\* log(1 + x)
TaylorClosedForm(cls, n) ==
    LET RECURSIVE Fact(_)
        Fact(m) == IF m = 0 THEN 1 ELSE m * Fact(m - 1)
    IN  IF cls = "exp" THEN [c |-> <<1, Fact(n)>>, k |-> n]
        ELSE [c |-> <<IF n % 2 = 0 THEN 1 ELSE -1, n + 1>>, k |-> n + 1]

\* the call was made without a usable previous term (none, or None as the last)
NoPreviousTerm ==
    \/ libCall.args[3] = <<>>
    \/ libCall.args[3][Len(libCall.args[3])] = NoTerm

\* the last previous term of the call is the closed form of order n - 1
PreviousIsClosedForm ==
    /\ libCall.args[2] >= 1
    /\ libCall.args[3] # <<>>
    /\ libCall.args[3][Len(libCall.args[3])] = TaylorClosedForm(libCall.args[1], libCall.args[2] - 1)

\* C25 as stated: for every order n >= 1 the term computed from the previous
\* term and the term computed without one are both the closed form; the term
\* is 0 for n < 0, and at order 0 it is 1 for exp and x for log.
C25_Original ==
    libCall.fn = "taylor_term" =>
        LET cls == libCall.args[1]
            n == libCall.args[2]
        IN  /\ n < 0 => libRet = [raised |-> "", value |-> [c |-> <<0, 1>>, k |-> 0]]
            /\ n = 0 => libRet = [raised |-> "", value |-> [c |-> <<1, 1>>, k |-> IF cls = "exp" THEN 0 ELSE 1]]
            /\ (n >= 1 /\ (PreviousIsClosedForm \/ NoPreviousTerm)) =>
                  libRet = [raised |-> "", value |-> TaylorClosedForm(cls, n)]

\* C25, what taylor_term does: as stated for log and for every call with the
\* previous term; exp.taylor_term of an order n >= 1 without a previous term
\* ends in an AttributeError.
C25_TaylorOutcome ==
    libCall.fn = "taylor_term" =>
        LET cls == libCall.args[1]
            n == libCall.args[2]
        IN  /\ n < 0 => libRet = [raised |-> "", value |-> [c |-> <<0, 1>>, k |-> 0]]
            /\ n = 0 => libRet = [raised |-> "", value |-> [c |-> <<1, 1>>, k |-> IF cls = "exp" THEN 0 ELSE 1]]
            /\ (n >= 1 /\ PreviousIsClosedForm) =>
                  libRet = [raised |-> "", value |-> TaylorClosedForm(cls, n)]
            /\ (n >= 1 /\ NoPreviousTerm /\ cls = "log") =>
                  libRet = [raised |-> "", value |-> TaylorClosedForm(cls, n)]
            /\ (n >= 1 /\ NoPreviousTerm /\ cls = "exp") => libRet.raised = "AttributeError"

\* exp.taylor_term(2, x) has raised, and so has exp.taylor_term(2, x, x, None)
C25_Witness ==
    /\ libCall.fn = "taylor_term"
    /\ libCall.args[1] = "exp"
    /\ libCall.args[2] = 2
    /\ libCall.args[3] \in {<<>>, <<[c |-> <<1, 1>>, k |-> 1], NoTerm>>}
    /\ libRet.raised = "AttributeError"

\* =====================================================================
\* Properties of powsimp with combine='base'
\* =====================================================================
\* the value of a product of powers at x = 1/2 and n = 1, for the value yval
\* of the symbol y: i**phase * sqrt(radicand), with the principal square root
\* sqrt(v) = i*sqrt(-v) of a negative v
PowersValue(expr, yval) ==
    LET RECURSIVE IntPow(_, _)
        IntPow(v, k) == IF k = 0 THEN 1 ELSE v * IntPow(v, k - 1)
        base(f) == f.b.c * IntPow(yval, f.b.y)
        RECURSIVE value(_)
        value(fs) ==
            IF fs = {} THEN [phase |-> 0, radicand |-> 1]
            ELSE LET f == CHOOSE g \in fs : TRUE
                     v == base(f)
                     k == f.e.x + 2 * f.e.n
                     rest == value(fs \ {f})
                 IN  [phase |-> (rest.phase + (IF v < 0 THEN k ELSE 0)) % 4,
                      radicand |-> rest.radicand * IntPow(Abs(v), k)]
    IN value(expr)

\* C30 as stated: with force=False and combine='base' the product of powers
\* powsimp returns has the value of its input, also for two or three negative
\* bases under a non-integer exponent.
C30_Original ==
    (libCall.fn = "powsimp" /\ libCall.args[3] = "base" /\ ~libCall.args[4]) =>
        \A yval \in {-7, 7} :
            PowersValue(libRet.value, yval) = PowersValue(libCall.args[1], yval)

\* C30, what powsimp does: the value is kept exactly when fewer than two
\* negative bases share the non-integer exponent; two or more have their
\* signs cancelled in pairs, which changes the value.
C30_BaseOutcome ==
    (libCall.fn = "powsimp" /\ libCall.args[3] = "base" /\ ~libCall.args[4]) =>
        \A yval \in {-7, 7} :
            (PowersValue(libRet.value, yval) = PowersValue(libCall.args[1], yval))
                <=> Cardinality(NegativeBases(libCall.args[1])) < 2

\* powsimp((-2)**x*(-3)**x, combine='base') has returned 6**x
C30_Witness ==
    /\ libCall.fn = "powsimp"
    /\ libCall.args[3] = "base" /\ ~libCall.args[4]
    /\ libCall.args[1] = {[b |-> [c |-> -2, y |-> 0], e |-> [x |-> 1, n |-> 0]],
                          [b |-> [c |-> -3, y |-> 0], e |-> [x |-> 1, n |-> 0]]}
    /\ libRet.value = {[b |-> [c |-> 6, y |-> 0], e |-> [x |-> 1, n |-> 0]]}

\* =====================================================================
\* Properties of Predicate.eval
\* =====================================================================

\* the answer handler h contributes for the type chain mro: the resolver named
\* after the first type of the chain that h has an attribute for
FirstAttrAnswer(h, mro) ==
    LET idx == {i \in DOMAIN mro : mro[i] \in DOMAIN h} IN
    IF idx = {} THEN "NoAttr"
    ELSE h[mro[CHOOSE i \in idx : \A j \in idx : i <= j]]

\* the conclusive (non-None) answers among the handlers
ConclusiveAnswers(hs, mro) ==
    {FirstAttrAnswer(hs[i], mro) : i \in DOMAIN hs} \cap {"True", "False"}

IsConclusive(h, mro) == FirstAttrAnswer(h, mro) \in {"True", "False"}

\* C5: eval raises 'incompatible resolutors' exactly when two handlers that
\* resolve for the expression's type chain give different non-None answers,
\* wherever they stand in the handler list and whatever lies between them.
C5_IncompatibleResolutors ==
    predCall.op = "eval" =>
        (predCall.raised <=>
            ConclusiveAnswers(handlers, getmro(predCall.expr)) = {"True", "False"})

\* a conflict between the first and the last of three handlers, with an
\* inconclusive or non-matching handler between them, has raised
C5_Witness ==
    /\ predCall.op = "eval"
    /\ predCall.raised
    /\ Len(handlers) = 3
    /\ LET mro == getmro(predCall.expr) IN
       /\ FirstAttrAnswer(handlers[1], mro) = "True"
       /\ FirstAttrAnswer(handlers[2], mro) \in {"None", "NoAttr"}
       /\ FirstAttrAnswer(handlers[3], mro) = "False"

\* C6: without a conflict eval returns the answer of the conclusive handlers,
\* or None when there is none; the result does not depend on the order of the
\* handlers nor on the inconclusive and non-matching handlers among them; each
\* handler answers with the resolver of the first type of the mro it defines.
C6_EvalAnswer ==
    (predCall.op = "eval" /\ ~predCall.raised) =>
        LET mro == getmro(predCall.expr)
            ans == ConclusiveAnswers(handlers, mro)
            out == [ret |-> predCall.ret, raised |-> FALSE]
            conclusive(h) == IsConclusive(h, mro)
        IN  /\ predCall.ret = (IF ans = {} THEN "None" ELSE CHOOSE a \in ans : TRUE)
            /\ \A p \in Permutations(handlers) : PredicateEval(p, predCall.expr) = out
            /\ PredicateEval(SelectSeq(handlers, conclusive), predCall.expr) = out

\* a conclusive handler between an inconclusive and a non-matching one, whose
\* class defines resolvers for two types of the chain that answer differently
C6_Witness ==
    /\ predCall.op = "eval"
    /\ predCall.expr = "Integer"
    /\ predCall.ret = "True"
    /\ Len(handlers) = 3
    /\ FirstAttrAnswer(handlers[1], getmro("Integer")) = "None"
    /\ handlers[2] = [a \in {"Integer", "Basic"} |-> IF a = "Integer" THEN "True" ELSE "False"]
    /\ DOMAIN handlers[3] = {}

\* the number of times h occurs in the list hs
Occurrences(hs, h) == Cardinality({i \in DOMAIN hs : hs[i] = h})

\* the list hs without its i-th element
WithoutIndex(hs, i) == SubSeq(hs, 1, i - 1) \o SubSeq(hs, i + 1, Len(hs))

\* C24: the handlers form a list. add_handler(h) appends h, so that h occurs
\* once more than before; a remove_handler(h) that returns has removed exactly
\* one occurrence of h, the first, and kept the others in their order; a
\* remove_handler that raises was no call for a handler of the list, and it
\* leaves the list unchanged; eval leaves the list unchanged and answers from
\* the handlers of the list as it stands.
C24_HandlerList ==
    [][/\ predCall'.op = "add_handler" =>
            LET h == handlers'[Len(handlers')] IN
            /\ add_handler(h)
            /\ handlers' = handlers \o <<h>>
            /\ Occurrences(handlers', h) = Occurrences(handlers, h) + 1
            /\ ~predCall'.raised
       /\ (predCall'.op = "remove_handler" /\ ~predCall'.raised) =>
            \E i \in DOMAIN handlers :
                /\ remove_handler(handlers[i])
                /\ \A j \in 1..(i - 1) : handlers[j] # handlers[i]
                /\ handlers' = WithoutIndex(handlers, i)
                /\ Occurrences(handlers', handlers[i]) = Occurrences(handlers, handlers[i]) - 1
       /\ (predCall'.op = "remove_handler" /\ predCall'.raised) =>
            /\ handlers' = handlers
            /\ \A i \in DOMAIN handlers : ~remove_handler(handlers[i])
       /\ predCall'.op = "eval" =>
            /\ handlers' = handlers
            /\ LET answers == ConclusiveAnswers(handlers, getmro(predCall'.expr))
               IN  /\ predCall'.raised <=> Cardinality(answers) = 2
                   /\ ~predCall'.raised =>
                         predCall'.ret = (IF answers = {} THEN "None"
                                          ELSE CHOOSE a \in answers : TRUE)
      ]_vars

\* a removal has succeeded and a handler that was added twice is in the list
\* twice
C24_Witness ==
    /\ predCall.op = "remove_handler"
    /\ ~predCall.raised
    /\ Len(handlers) = 2
    /\ handlers[1] = handlers[2]
    /\ DOMAIN handlers[1] = {"Integer"}

\* =====================================================================
\* Properties of AssumptionsContext
\* =====================================================================

\* add(f1); ...; add(fn), one call per fact
RECURSIVE SingleAdds(_, _)
SingleAdds(c, fs) ==
    IF fs = <<>> THEN c
    ELSE SingleAdds(ContextAdd(c, <<Head(fs)>>), Tail(fs))

\* C7: the context holds each fact at most once; add(f1, ..., fn) leaves the
\* context as add(f1); ...; add(fn) does; adding facts that are all present
\* already, or no fact at all, changes nothing.
C7_SetSemantics ==
    /\ \A f \in Facts : ctx[f] <= 1
    /\ ctxCall.op = "add" =>
        /\ ctx = SingleAdds(ctxPrev, ctxCall.args)
        /\ (\A i \in DOMAIN ctxCall.args : ctxPrev[ctxCall.args[i]] > 0) => ctx = ctxPrev

\* one call added two facts, one of them present before and one of them new
C7_Witness ==
    /\ ctxCall.op = "add"
    /\ Len(ctxCall.args) = 2
    /\ ctxPrev[ctxCall.args[1]] = 1
    /\ ctxPrev[ctxCall.args[2]] = 0
    /\ ctx[ctxCall.args[2]] = 1

\* =====================================================================
\* Properties of the relational subsystem
\* =====================================================================

\* the position of a number in the order -oo < finite numbers < +oo
Rank(a) ==
    IF a.k = "-oo" THEN -1
    ELSE IF a.k = "oo" THEN MaxFinite + 1
    ELSE a.v

\* the comparison of two integers
IntCompare(rop, i, j) ==
    CASE rop = "==" -> i = j
      [] rop = "!=" -> i # j
      [] rop = "<"  -> i < j
      [] rop = "<=" -> i <= j
      [] rop = ">"  -> i > j
      [] rop = ">=" -> i >= j

\* C1: every constructor and every native operator applied to two numbers
\* (the infinities included) returns the literal boolean of the total order
\* -oo < finite < +oo, never an unevaluated relational.
C1_InfinityTruthTable ==
    (relCall.fn \in {"Relational", "Rel", "Named", "Native"}
        /\ is_Number(relCall.a) /\ is_Number(relCall.b)) =>
        /\ relCall.ret.cls = "bool"
        /\ relCall.ret.val = IntCompare(relCall.rop, Rank(relCall.a), Rank(relCall.b))

\* oo >= oo has been built with the native operator and is True
C1_Witness ==
    /\ relCall.fn = "Native"
    /\ relCall.rop = ">="
    /\ relCall.a = PosInf
    /\ relCall.b = PosInf
    /\ relCall.ret = BoolLit(TRUE)

\* what C2 promises of the value r returned by obj.subs(old, new), for obj
\* with lhs = old and rhs different from old
SubsPromise(obj, old, new, r) ==
    IF is_Number(new) /\ is_Number(obj.rhs)
    THEN /\ r.cls = "bool"
         /\ r.val = IntCompare(obj.rel_op, Rank(new), Rank(obj.rhs))
    ELSE /\ r.rel_op = obj.rel_op
         /\ (obj.rel_op = "==" => r.cls = "Equality")
         /\ (obj.rel_op = "<" => r.cls = "StrictInequality")
         /\ r.cls = obj.cls
         /\ r.lhs = new
         /\ r.rhs = obj.rhs

\* C2: substituting for the lhs of a relational returns a relational of the
\* same variant with the new lhs and the old rhs, or the literal boolean when
\* both sides have become numbers; the original object is left unchanged.
C2_SubsKeepsVariant ==
    [][(relCall'.fn = "subs" /\ e.lhs = relCall'.a /\ e.rhs # relCall'.a) =>
            /\ e' = e
            /\ SubsPromise(e, relCall'.a, relCall'.b, relCall'.ret)]_vars

\* Relational(x, y, '<').subs(x, z) has returned a StrictInequality
C2_Witness ==
    /\ relCall.fn = "subs"
    /\ e = Relational(Symbol("x", "sym"), Symbol("y", "sym"), "<")
    /\ relCall.a = Symbol("x", "sym")
    /\ relCall.b = Symbol("z", "sym")
    /\ relCall.ret.cls = "StrictInequality"
    /\ relCall.ret.lhs = Symbol("z", "sym")

\* the part of C3 that does not concern Eq(a) != Eq(a, 1)
WrappersAgree ==
    /\ relCall.fn \in {"Relational", "Rel", "Native"} =>
            relCall.ret = Named(relCall.rop, relCall.a, relCall.b)
    /\ relCall.fn = "Named" =>
            /\ relCall.ret = Relational(relCall.a, relCall.b, relCall.rop)
            /\ relCall.ret = Rel(relCall.a, relCall.b, relCall.rop)
    /\ relCall.fn = "Eq1" => relCall.ret = Eq(relCall.a, Num(0))

\* C3 as stated: ... and Eq(a) differs from Eq(a, 1) for every a
C3_Original ==
    /\ WrappersAgree
    /\ relCall.fn = "Eq1" => relCall.ret # Eq(relCall.a, Num(1))

\* C3, amended: Relational and Rel agree with the named constructors, the
\* native operators agree with Lt, Le, Gt, Ge on the same operands, Eq(a) is
\* Eq(a, 0), and Eq(a) differs from Eq(a, 1) unless a is a number other than
\* 0 and 1 (both then collapse to False).
C3_WrappersAmended ==
    /\ WrappersAgree
    /\ (relCall.fn = "Eq1" /\ ~(is_Number(relCall.a) /\ relCall.a \notin {Num(0), Num(1)})) =>
            relCall.ret # Eq(relCall.a, Num(1))

\* Eq(1) has been built: it is False, as Eq(1, 0) is and Eq(1, 1) is not
C3_Witness ==
    /\ relCall.fn = "Eq1"
    /\ relCall.a = Num(1)
    /\ relCall.ret = BoolLit(FALSE)
    /\ Eq(Num(1), Num(1)) = BoolLit(TRUE)

\* the real values a symbol with one sign fact may take, up to sign
SignValues(a) ==
    CASE a.k = "positive" -> {1}
      [] a.k = "negative" -> {-1}
      [] a.k = "nonpositive" -> {-1, 0}
      [] a.k = "nonnegative" -> {0, 1}

\* C4: doit() on an ordering of a signed symbol against 0 is True when the
\* sign fact implies the comparison, False when it implies the negation and
\* the unchanged relational otherwise; an ordering of a positive symbol
\* against a non-zero number and an Eq of a plain symbol stay unevaluated.
C4_DoitSignShortcuts ==
    relCall.fn = "doit" =>
        /\ (e.rel_op \in {"<", "<=", ">", ">="} /\ e.lhs \in SignedSymbols /\ e.rhs = Num(0)) =>
            LET holds == {v \in SignValues(e.lhs) : IntCompare(e.rel_op, v, 0)} IN
            relCall.ret = (IF holds = SignValues(e.lhs) THEN BoolLit(TRUE)
                           ELSE IF holds = {} THEN BoolLit(FALSE)
                           ELSE e)
        /\ (e.rel_op \in {"<", "<=", ">", ">="} /\ e.lhs = Symbol("p", "positive")
                /\ e.rhs.k = "num" /\ e.rhs.v # 0) => relCall.ret = e
        /\ (e.rel_op = "==" /\ e.lhs \in PlainSymbols /\ e.rhs = Num(0)) => relCall.ret = e

\* Ge(nn, 0).doit() has returned True
C4_Witness ==
    /\ relCall.fn = "doit"
    /\ e.rel_op = ">="
    /\ e.lhs = Symbol("nn", "nonnegative")
    /\ e.rhs = Num(0)
    /\ relCall.ret = BoolLit(TRUE)

\* =====================================================================
\* Properties of Wigner3j and CG
\* =====================================================================

\* C8: is_symbolic is False exactly when all six components are numbers;
\* doit() on a symbolic coefficient raises 'Coefficients must be numerical'
\* without calling the evaluator; on a numeric one it calls the evaluator of
\* its class with (j1, j2, j3, m1, m2, m3) and does not raise; the coefficient
\* itself is never changed by doit().
C8_SymbolicGuard ==
    [][cgCall'.fn = "doit" =>
        LET numeric == \A i \in 1..6 : coeff.args[i].num IN
        /\ coeff' = coeff
        /\ is_symbolic(coeff) = ~numeric
        /\ cgCall'.raised = ~numeric
        /\ ~numeric =>
            /\ cgCall'.msg = "Coefficients must be numerical"
            /\ cgCall'.called = "none"
        /\ numeric =>
            /\ cgCall'.called = (IF coeff.cls = "CG" THEN "clebsch_gordan" ELSE "wigner_3j")
            /\ cgCall'.with = <<coeff.args[1], coeff.args[3], coeff.args[5],
                               coeff.args[2], coeff.args[4], coeff.args[6]>>]_vars

\* doit() has raised on a coefficient whose only symbolic component is m3
C8_Witness ==
    /\ cgCall.fn = "doit"
    /\ cgCall.raised
    /\ coeff.cls = "CG"
    /\ \A i \in 1..5 : coeff.args[i].num
    /\ ~coeff.args[6].num

\* ---------------------------------------------------------------------
\* cg_simp on the sum of a whole family
\* ---------------------------------------------------------------------

\* the sum cg_simp was called on is k*CG(a, alpha, 0, 0, a, alpha) over every
\* alpha = -a .. a (a given as twice its value), in some order
IsFamilySum(a, k) ==
    /\ Len(simpIn.terms) = a + 1
    /\ {simpIn.terms[n].cg : n \in DOMAIN simpIn.terms} = CGFamily(a)
    /\ \A n \in DOMAIN simpIn.terms : simpIn.terms[n].lt = k

\* C9: for every a >= 1/2 of the bounded set and every common non-zero
\* coefficient k, cg_simp of the sum over alpha = -a .. a of
\* k*CG(a, alpha, 0, 0, a, alpha) (plus a number konst) returns k*(2a+1)
\* (plus konst) with no CG term left and without raising, whatever the order
\* of the terms.
C9_FamilySumCollapses ==
    \A a \in 1..MaxTwoA, k \in LeadingTerms :
        IsFamilySum(a, k) =>
            /\ ~simpOut.raised
            /\ simpOut.cg = {}
            /\ simpOut.value = Rational(simpIn.konst + k * (a + 1))

\* cg_simp(CG(1,1,0,0,1,1) + CG(1,0,0,0,1,0) + CG(1,-1,0,0,1,-1)) has returned 3
C9_Witness ==
    /\ simpIn.konst = 0
    /\ simpIn.terms = <<Term(1, <<CNum(2), CNum(2), CNum(0), CNum(0), CNum(2), CNum(2)>>),
                        Term(1, <<CNum(2), CNum(0), CNum(0), CNum(0), CNum(2), CNum(0)>>),
                        Term(1, <<CNum(2), CNum(-2), CNum(0), CNum(0), CNum(2), CNum(-2)>>)>>
    /\ ~simpOut.raised
    /\ simpOut.cg = {}
    /\ simpOut.value = Rational(3)

\* ---------------------------------------------------------------------
\* The passes of cg_simp through the loop of _check_cg_simp
\* ---------------------------------------------------------------------

\* the states of the loop of _check_cg_simp from st on, the last one included
RECURSIVE LoopTrace(_, _, _)
LoopTrace(T, st, leak) ==
    IF st.err # "" \/ st.i > Len(st.terms) THEN <<st>>
    ELSE The({<<st>> \o LoopTrace(T, nx, leak) : nx \in {Iteration(T, st, leak)}})

\* the loops of the passes of _cg_simp_add from pass k on
RECURSIVE PassTraces(_, _, _)
PassTraces(k, cg_part, leak) ==
    IF k > Len(Identities) THEN <<>>
    ELSE The({<<tr>> \o (IF tr[Len(tr)].err # "" THEN <<>>
                         ELSE PassTraces(k + 1, tr[Len(tr)].terms, leak)) :
                tr \in {LoopTrace(Identities[k],
                                  [terms |-> cg_part, i |-> 1, other |-> ZeroValue, err |-> ""],
                                  leak)}})

\* the passes through the body of the while loop in the loops trs: identity T
\* takes the loop from before to after
StepsOf(trs) ==
    UNION {{[T |-> Identities[k], before |-> trs[k][n], after |-> trs[k][n + 1]] :
               n \in 1..(Len(trs[k]) - 1)} : k \in DOMAIN trs}

\* the passes that cg_simp makes on the sum of the current state, for either
\* binding of i after a firing: the loops where i is rebound, and the loops
\* where it is not when they differ, which they only do after a pass that has
\* rebound i to another value
LoopSteps ==
    UNION {IF \E s \in rebound : s.after.err = "" /\ s.after.i # s.before.i
                                  /\ s.after.terms # s.before.terms
           THEN rebound \cup StepsOf(PassTraces(1, simpIn.terms, FALSE))
           ELSE rebound :
             rebound \in {StepsOf(PassTraces(1, simpIn.terms, TRUE))}}

\* the pass has advanced i by one, has fired an identity, or has raised
Advanced(s) == s.after = [s.before EXCEPT !.i = @ + 1]
Raised(s) == s.after.err # ""
Fired(s) == ~Advanced(s) /\ ~Raised(s)
FiredSteps == {s \in LoopSteps : Fired(s)}

\* the family a firing has matched: the bindings of its first term and the
\* slots with the index j, the coefficient lt and the sign of each term
Matched(s) ==
    LET sub_1 == check_cg(s.T, s.before.terms[s.before.i], NoMatch)
        n == BuildIndex(s.T, sub_1).val
    IN  [sub_1 |-> sub_1,
         cg_index |-> FillIndex(s.T, sub_1, s.before.terms, s.before.i,
                                [k \in 1..n |-> NoEntry]).list]

\* C28: the loop of _check_cg_simp has ended for every call, and every pass
\* through its body that has not raised has either advanced i by one or
\* fired; a firing has left fewer terms than there were (it removes at least
\* one term more than it appends) and has not moved i below its value, so
\* that the number of terms at or after i has decreased on every pass.
C28_LoopTerminates ==
    \A s \in LoopSteps :
        ~Raised(s) =>
            /\ Fired(s) =>
                    /\ Len(s.after.terms) < Len(s.before.terms)
                    /\ s.after.i >= s.before.i
            /\ Len(s.after.terms) - s.after.i < Len(s.before.terms) - s.before.i

\* a pass has fired at the second term or later and has appended a leftover
C28_Witness ==
    \E s \in FiredSteps :
        /\ s.before.i > 1
        /\ Len(s.after.terms) = Len(s.before.terms) - 1

\* a slot index (given as twice its value) that a list of n slots cannot take
BadSlot(n, twice) == twice % 2 # 0 \/ twice \div 2 >= n \/ twice \div 2 < -n

\* the slot indices of the terms from i on that match the family of the
\* term at i, for the pass s
SlotsTried(s) ==
    LET sub_1 == check_cg(s.T, s.before.terms[s.before.i], NoMatch) IN
    {IndexExpr(s.T, sub_1, check_cg(s.T, s.before.terms[j], sub_1)).twice :
        j \in {j \in s.before.i..Len(s.before.terms) :
                  LET sub_2 == check_cg(s.T, s.before.terms[j], sub_1)
                  IN  sub_2.ok /\ IndexExpr(s.T, sub_1, sub_2).isnum}}

\* C22 as stated: no call raises, whatever the terms
C22_Original == simpIn.terms # <<>> => ~simpOut.raised

\* C22, what the code does: a call raises exactly when a pass through the
\* loop body does, and a pass raises exactly when the term at i matches with
\* a numeric slot count n and either a matching term has a slot index that is
\* not an integer (TypeError) or not in -n .. n-1 (IndexError), or n is below
\* two, the term alone completing its family (TypeError from min of one
\* value); a negative index in range is taken from the end of the list. A
\* pass that neither raises nor has all its slots filled leaves the terms
\* untouched and advances i.
C22_RaiseOutcome ==
    /\ simpOut.raised <=> \E s \in LoopSteps : Raised(s)
    /\ simpOut.raised => simpOut.err \in {"TypeError", "IndexError"}
    /\ \A s \in LoopSteps :
            LET sub_1 == check_cg(s.T, s.before.terms[s.before.i], NoMatch)
                build == BuildIndex(s.T, sub_1)
                counted == sub_1.ok /\ build.isnum
            IN  /\ Raised(s) <=>
                        /\ counted
                        /\ \/ \E twice \in SlotsTried(s) : BadSlot(build.val, twice)
                           \/ build.val < 2
                /\ (~Raised(s) /\ (~counted \/ Cardinality(SlotsTried(s)) < build.val)) =>
                        Advanced(s)

\* cg_simp(CG(0,0,0,0,0,0) + ...) has raised TypeError: the first term alone
\* fills the one slot of its family
C22_Witness ==
    /\ simpIn.terms # <<>>
    /\ simpIn.terms[1].cg = <<CNum(0), CNum(0), CNum(0), CNum(0), CNum(0), CNum(0)>>
    /\ simpOut.raised
    /\ simpOut.err = "TypeError"

\* s_k of the identity for the term with the components cg: (-1)**(a-alpha)
\* for 8.7.1 eq 2, else 1
SlotSign(T, cg) ==
    IF T = "871_2" /\ ((cg[1].v2 - cg[2].v2) \div 2) % 2 = 1 THEN -1 ELSE 1

SignOfCoef(n) == IF n < 0 THEN -1 ELSE 1

\* what a firing has to leave when the leftover of slot k is
\* (c_k - m*sigma*s_k)*T_k (as stated) or (c_k - m*sigma)*T_k: the terms that
\* were not matched, then the leftovers of the slots with abs(c_k) > m, in
\* the order of the slots; and the total with m*sigma*R added
AfterFiring(s, as_stated) ==
    LET cg_index == Matched(s).cg_index
        first == s.before.terms[s.before.i]
        sigma == SlotSign(s.T, first.cg) * SignOfCoef(first.lt)
        m == MinOf({Abs(cg_index[k].lt) : k \in DOMAIN cg_index})
        more(en) == Abs(en.lt) > m
        left == SelectSeq(cg_index, more)
        T_k(k) == s.before.terms[left[k].j].cg
    IN  [terms |-> Popped(s.before.terms, {cg_index[k].j : k \in DOMAIN cg_index})
                    \o [k \in 1..Len(left) |->
                            Term(left[k].lt - m * sigma * (IF as_stated THEN SlotSign(s.T, T_k(k)) ELSE 1),
                                 T_k(k))],
         other |-> ValueAdd(s.before.other, ValueOf(m * sigma, Simp(s.T, Matched(s).sub_1)))]

\* twice the value of the sum a pass of the loop holds, for the terms whose
\* value the identities give: CG(a, alpha, 0, 0, a, alpha) = 1 for alpha in
\* -a .. a, CG(1/2, 1/2, 1/2, -1/2, 0, 0) = 1/sqrt(2) and
\* CG(1/2, -1/2, 1/2, 1/2, 0, 0) = -1/sqrt(2)
HasValue(st) ==
    \A k \in DOMAIN st.terms : st.terms[k].cg \in CGPair \cup UNION {CGFamily(a) : a \in 0..MaxTwoA}
RECURSIVE TwiceTerms(_, _)
TwiceTerms(terms, k) ==
    IF k > Len(terms) THEN ZeroValue
    ELSE LET t == terms[k]
             v == IF t.cg \in CGPair
                  THEN ValueOf(t.lt * (IF t.cg[2] = CNum(1) THEN 1 ELSE -1), [coef |-> 1, rad |-> 2, delta |-> ""])
                  ELSE Rational(2 * t.lt)
         IN  ValueAdd(v, TwiceTerms(terms, k + 1))
TwiceValue(st) == ValueAdd(TwiceTerms(st.terms, 1), ValueAdd(st.other, st.other))

\* C26 as stated: every firing leaves the leftovers (c_k - m*sigma*s_k)*T_k of
\* the slots with abs(c_k) > m, adds m*sigma*R to the total and so keeps the
\* value of the sum.
C26_Original ==
    \A s \in FiredSteps :
        /\ s.after.terms = AfterFiring(s, TRUE).terms
        /\ s.after.other = AfterFiring(s, TRUE).other
        /\ (HasValue(s.before) /\ HasValue(s.after)) => TwiceValue(s.after) = TwiceValue(s.before)

\* C26, what the code does: the leftover of slot k is (c_k - m*sigma)*T_k,
\* without the factor s_k; no leftover is added for a slot with abs(c_k) = m
\* and m*sigma*R is added to the total. The firing keeps the value of the sum
\* exactly when every slot that gets a leftover has s_k = 1, which is so for
\* 8.7.1 eq 1 and 8.7.2 eq 9 and for equal absolute coefficients.
C26_LeftoverOutcome ==
    \A s \in FiredSteps :
        LET cg_index == Matched(s).cg_index
            m == MinOf({Abs(cg_index[k].lt) : k \in DOMAIN cg_index})
            minus == {k \in DOMAIN cg_index :
                        /\ Abs(cg_index[k].lt) > m
                        /\ SlotSign(s.T, s.before.terms[cg_index[k].j].cg) = -1}
        IN  /\ s.after.terms = AfterFiring(s, FALSE).terms
            /\ s.after.other = AfterFiring(s, FALSE).other
            /\ Len(s.after.terms) = Len(s.before.terms) - Cardinality({k \in DOMAIN cg_index : Abs(cg_index[k].lt) = m})
            /\ minus = {} => s.after.terms = AfterFiring(s, TRUE).terms
            /\ (HasValue(s.before) /\ HasValue(s.after)) =>
                    (TwiceValue(s.after) = TwiceValue(s.before) <=> minus = {})

\* cg_simp(-CG(1/2,1/2,1/2,-1/2,0,0) + 2*CG(1/2,-1/2,1/2,1/2,0,0)), which is
\* CG(1/2,-1/2,1/2,1/2,0,0) - sqrt(2), has returned
\* 3*CG(1/2,-1/2,1/2,1/2,0,0) - sqrt(2)
C26_Witness ==
    /\ simpIn.konst = 0
    /\ simpIn.terms = <<Term(-1, <<CNum(1), CNum(1), CNum(1), CNum(-1), CNum(0), CNum(0)>>),
                        Term(2, <<CNum(1), CNum(-1), CNum(1), CNum(1), CNum(0), CNum(0)>>)>>
    /\ FiredSteps # {}
    /\ simpOut.cg = {Term(3, <<CNum(1), CNum(-1), CNum(1), CNum(1), CNum(0), CNum(0)>>)}
    /\ simpOut.value = ValueOf(-1, [coef |-> 1, rad |-> 2, delta |-> ""])

\* the loops of the passes of the call of the current state, and what pass k
\* of them has returned as its replacement
CallTraces ==
    The({PassTraces(1, simpIn.terms, leak) :
            leak \in {CHOOSE l \in BOOLEAN : simpOut = cg_simp_add(simpIn.terms, simpIn.konst, l)}})
Produced(trs, k) == trs[k][Len(trs[k])].other

\* C27 as stated: the value returned holds the number of the sum and what
\* each of the six passes has produced for the terms it has removed.
C27_Original ==
    (simpIn.terms # <<>> /\ ~simpOut.raised) =>
        \A trs \in {CallTraces} : \A u \in Units :
            simpOut.value[u] = Rational(simpIn.konst)[u]
                                + Produced(trs, 1)[u] + Produced(trs, 2)[u] + Produced(trs, 3)[u]
                                + Produced(trs, 4)[u] + Produced(trs, 5)[u] + Produced(trs, 6)[u]

\* C27, what the code does: the value returned holds what the passes of
\* 8.7.1 and the first, second and fourth pass of 8.7.2 eq 9 have produced;
\* what the third pass (two different factors, numerical alpha and beta) has
\* produced is in no part of the result, while the terms it has matched are
\* removed all the same.
C27_ReplacementOutcome ==
    (simpIn.terms # <<>> /\ ~simpOut.raised) =>
        \A trs \in {CallTraces} :
            /\ \A u \in Units :
                    simpOut.value[u] = Rational(simpIn.konst)[u]
                                        + Produced(trs, 1)[u] + Produced(trs, 2)[u] + Produced(trs, 3)[u]
                                        + Produced(trs, 4)[u] + Produced(trs, 6)[u]
            /\ simpOut.cg = CanonicalSum(trs[Len(Identities)][Len(trs[Len(Identities)])].terms)
            /\ Produced(trs, 5) # ZeroValue =>
                    \E n \in 1..(Len(trs[5]) - 1) : Len(trs[5][n + 1].terms) < Len(trs[5][n].terms)

\* cg_simp of CG(1/2,1/2,1/2,-1/2,0,0)*CG(1/2,alphap,1/2,betap,0,0) +
\* CG(1/2,1/2,1/2,-1/2,1,0)*CG(1/2,alphap,1/2,betap,1,0) has returned 0: the
\* third pass has removed both terms and the product of deltas it has
\* produced is lost
C27_Witness ==
    /\ Len(simpIn.terms) = 2
    /\ simpIn.konst = 0
    /\ \A k \in 1..2 : /\ Len(simpIn.terms[k].cg) = 12
                        /\ simpIn.terms[k].lt = 1
                        /\ simpIn.terms[k].cg[2] = CNum(1)
                        /\ simpIn.terms[k].cg[8] = CSym("alphap")
    /\ \E s \in FiredSteps : s.T = "872_9_num"
    /\ Produced(CallTraces, 5) = ValueOf(1, [coef |-> 1, rad |-> 1, delta |-> "alphap,betap"])
    /\ ~simpOut.raised
    /\ simpOut.cg = {}
    /\ simpOut.value = ZeroValue

\* ---------------------------------------------------------------------
\* exp and log as inverses at construction
\* ---------------------------------------------------------------------

\* elCur is exp(log(elArg)), respectively log(exp(elArg))
IsExpOfLog == elOps = <<"log", "exp">>
IsLogOfExp == elOps = <<"exp", "log">>

\* C10 as stated: exp(log(y)) evaluates to y for every expression y, and
\* log(exp(x)) evaluates to x for every x known to be real.
C10_Original ==
    /\ IsExpOfLog => elCur = elArg
    /\ (IsLogOfExp /\ IsReal(elArg)) => elCur = elArg

\* log(y) is +oo for y = -oo and for y = i*oo and -i*oo
LogCollapses(y) ==
    \/ y = NegativeInfinity
    \/ y.k = "mul" /\ y.c \in {"oo", "-oo"} /\ y.fs = {ImaginaryUnit}

\* x is a product or sum with an addend that has an infinite coefficient or
\* a log factor: exp(x) is rewritten with a power
HasLogOrInfiniteTerm(x) ==
    /\ x.k \in {"mul", "add"}
    /\ \E t \in RestPart(x, "add") :
          \/ NumPart(t, "mul", Integer(1)).k = "oo"
          \/ \E f \in RestPart(t, "mul") : f.k = "log"

\* C10 (amended): exp(log(y)) evaluates to y for every y other than -oo, i*oo
\* and -i*oo, and log(exp(x)) evaluates to x for every x known to be real that
\* is not a product or sum with an infinite or log term.
C10_InversesAmended ==
    /\ (IsExpOfLog /\ ~LogCollapses(elArg)) => elCur = elArg
    /\ (IsLogOfExp /\ IsReal(elArg) /\ ~HasLogOrInfiniteTerm(elArg)) => elCur = elArg

\* exp(log(-2)) has evaluated to -2 (through i*pi + log(2))
C10_Witness ==
    /\ IsExpOfLog
    /\ elArg = Integer(-2)
    /\ elCur = Integer(-2)

\* ---------------------------------------------------------------------
\* log and exp: special values
\* ---------------------------------------------------------------------

\* elCur is log(elArg), respectively exp(elArg)
IsLog == elOps = <<"log">>
IsExp == elOps = <<"exp">>

IPi == Flat("mul", Integer(1), {Pi, ImaginaryUnit})

\* C11: at construction without a base, log(1) is 0, log(0) is -oo, log(e) is 1,
\* log(+oo) and log(-oo) are +oo, log(NaN) is NaN, log(-r) is i*pi + log(r) for
\* every negative number -r, and log of a positive number other than 1 stays
\* an unevaluated log.
C11_LogSpecialValues ==
    IsLog =>
        /\ elArg = Integer(1) => elCur = Integer(0)
        /\ elArg = Integer(0) => elCur = NegativeInfinity
        /\ elArg = Exp1 => elCur = Integer(1)
        /\ elArg \in {Infinity, NegativeInfinity} => elCur = Infinity
        /\ elArg = NaN => elCur = NaN
        /\ elArg = Integer(-1) => elCur = IPi
        /\ \A n \in 2..MaxInt :
              /\ elArg = Integer(-n) => elCur = Flat("add", Integer(0), {IPi, Node("log", <<Integer(n)>>)})
              /\ elArg = Integer(n) => elCur = Node("log", <<Integer(n)>>)

\* log(-2) has evaluated to i*pi + log(2)
C11_Witness ==
    /\ IsLog
    /\ elArg = Integer(-2)
    /\ elCur = Flat("add", Integer(0), {IPi, Node("log", <<Integer(2)>>)})

\* i*pi*c for the coefficient c = h/2
IPiTimes(h) == Flat("mul", Atom("num", h, "", ""), {Pi, ImaginaryUnit})
MinusI == Flat("mul", Integer(-1), {ImaginaryUnit})

\* C19 as stated: exp(i*pi*c) is 1 for an even integer c, -1 for an odd
\* integer c, -i for c an even integer plus 1/2 and i for c an odd integer
\* plus 1/2.
C19_Original ==
    \A h \in ((-2 * MaxInt)..(2 * MaxInt)) \ {0} :
        (IsExp /\ elArg = IPiTimes(h)) =>
            elCur = CASE h % 4 = 0 -> Integer(1)
                      [] h % 4 = 2 -> Integer(-1)
                      [] h % 4 = 1 -> MinusI
                      [] OTHER -> ImaginaryUnit

\* C19 (amended): exp(i*pi*c) is 1 for an even integer c, -1 for an odd
\* integer c, i for c an even integer plus 1/2 and -i for c an odd integer
\* plus 1/2.
C19_PeriodicityAmended ==
    \A h \in ((-2 * MaxInt)..(2 * MaxInt)) \ {0} :
        (IsExp /\ elArg = IPiTimes(h)) =>
            elCur = CASE h % 4 = 0 -> Integer(1)
                      [] h % 4 = 2 -> Integer(-1)
                      [] h % 4 = 1 -> ImaginaryUnit
                      [] OTHER -> MinusI

\* exp(i*pi/2) has evaluated to i
C19_Witness ==
    /\ IsExp
    /\ elArg = IPiTimes(1)
    /\ elCur = ImaginaryUnit

\* C20 as stated: fdiff(argindex) with argindex other than 1 ends in an
\* ArgumentIndexError and in no other error, and fdiff(1) returns exp(x),
\* 1/x, W(x)/(x*(1+W(x))) without raising.
C20_Original ==
    libCall.fn = "fdiff" =>
        LET cls == libCall.args[1]
            y == libCall.args[2]
            W == Node("LambertW", <<y>>)
        IN  IF libCall.args[3] # 1 THEN libRet.raised = "ArgumentIndexError"
            ELSE /\ libRet.raised = ""
                 /\ cls = "exp" => libRet.value = Node("exp", <<y>>)
                 /\ cls = "log" => libRet.value = Node("pow", <<y, Integer(-1)>>)
                 /\ cls = "LambertW" =>
                        libRet.value = Flat("mul", Integer(1),
                            {W, Node("pow", <<Flat("mul", Integer(1), {y, Flat("add", Integer(1), {W})}), Integer(-1)>>)})

\* what fdiff does: fdiff(1) returns the derivative, every other argindex ends
\* in a NameError
C20_FdiffOutcome ==
    libCall.fn = "fdiff" =>
        IF libCall.args[3] = 1 THEN libRet.raised = "" /\ libRet.value # NoExpr
        ELSE libRet.raised = "NameError"

\* exp(x).fdiff(2) has raised
C20_Witness ==
    /\ libCall = [fn |-> "fdiff", args |-> <<"exp", SymX, 2>>]
    /\ libRet.raised = "NameError"

====
